---- MODULE Spec2Model ----
(***************************************************************************)
(* Model of the Omi song recognition webhook                               *)
(* (src/omi_song_recognition_webhook.py, src/supabase_storage.py).         *)
(*                                                                         *)
(* The service is a FastAPI application served by one uvicorn process:     *)
(* every handler is an `async def` coroutine running on the one event      *)
(* loop.  audio_webhook awaits only request.body(); everything after that  *)
(* (append, duration check, WAV creation, recognize_song, requests.post,   *)
(* clear/trim) is synchronous code that keeps the event loop until the     *)
(* handler returns.  `running` holds the request whose handler is blocked  *)
(* in an external call inside such a section; no other handler runs while  *)
(* it is set, and a request that arrives meanwhile is held in `waiting`.   *)
(* A request that arrives while the loop is free is served in one step.    *)
(* register_song makes its temporary file and then awaits file.read(): the *)
(* coroutine is kept in `uploads` and the loop is free until it is resumed;*)
(* from there to its return (rename, fingerprint_file, get_song_info,      *)
(* store_song_complete, unlink) it keeps the loop like audio_webhook.      *)
(* The Supabase tables `hashes` and `song_info` are state: register_song   *)
(* writes them and recognize_song reads them, one query of `hashes` for    *)
(* every 1000 hashes and then one of `song_info`.  The store applies one   *)
(* call                                                                    *)
(* at a time: the upsert on song_info and every insert of a batch of       *)
(* hashes rows is a step of its own, and the script                        *)
(* register_song_local.py, another process, can write between two of them. *)
(*                                                                         *)
(* Representation choices:                                                 *)
(*  - a confidence is held in hundredths (1.0 -> 100, 0.9 -> 90, ...);     *)
(*  - Python None is the empty tuple, a present value v is <<v>>;          *)
(*  - a duration is never divided out: len / 2 / rate >= d is compared as  *)
(*    len >= d * rate * 2 (rate > 0), which is exact;                      *)
(*  - the list of matching song ids is run-length encoded: the element     *)
(*    [song_id |-> s, n |-> k] stands for k consecutive copies of s.       *)
(***************************************************************************)
EXTENDS Integers, Sequences, FiniteSets, TLC

VARIABLES
    MIN_AUDIO_LENGTH,     \* int(os.getenv("MIN_AUDIO_LENGTH", "10"))
    MAX_BUFFER_DURATION,  \* int(os.getenv("MAX_BUFFER_DURATION", "60"))
    omi_configured,       \* OMI_APP_ID and OMI_API_KEY are both set
    devices,              \* the clients: uid -> the rates and chunk sizes it sends
    registrar,            \* the uploads the client of POST /register sends
    local_files,          \* the files the operator registers with the script
    audio_buffers,        \* uid -> [bytes, sample_rate, last_recognition]
    tmp_files,            \* files present in the temp directory
    hashes_table,         \* the rows of the Supabase table `hashes`
    song_info_table,      \* the rows of the Supabase table `song_info`
    uploads,              \* register_song coroutines suspended in `await file.read()`
    script,               \* the run of register_song_local.py that is under way
    running,              \* the request whose handler is blocked in an external call
    waiting,              \* a request that arrived while the event loop was blocked
    last,                 \* outcome of the handler that returned in the last step
    nreq,                 \* number of requests and runs of the script so far
    calls,                \* how often the gate opened and what it called
    probe                 \* argument and result of a pure function under test

vars == <<MIN_AUDIO_LENGTH, MAX_BUFFER_DURATION, omi_configured, devices,
          registrar, local_files, audio_buffers, tmp_files, hashes_table, song_info_table, uploads,
          script,
          running, waiting, last, nreq, calls, probe>>

(***************************************************************************)
(* Bounds of the model.                                                    *)
(***************************************************************************)
MaxRequests == 4
MaxScore == 1100
MaxChunks == 4
MaxLen == 130
MaxConfidence == 100
MaxFps == 4
MaxMatches == 3

None == <<>>
Some(v) == <<v>>

Uids == {"u1", "u2"}

\* A deployment fixes the configuration <<MIN_AUDIO_LENGTH,
\* MAX_BUFFER_DURATION, credentials set>> and the devices that talk to the
\* service: the sample rates a device declares (the query parameter is any
\* int) and the chunk lengths in bytes it sends.  At rate 1 a chunk of 20
\* bytes is 10 s and one of 120 bytes is 60 s; at rate 2, 20 bytes are 5 s.
Device(rates, sizes) == [rates |-> rates, sizes |-> sizes]

\* An upload is the multipart form of POST /register: the file with its name
\* and the optional fields artist and title (None when the field is not
\* sent).  What the file holds is given by what the extractor and the tag
\* reader find in it: `fps` stands for the list fingerprint_file returns, run
\* length encoded ([fingerprint_hash |-> h, n |-> k] is k pairs with hash h
\* at k offsets), `tags` for the (artist, album, title) of get_song_info.
Upload(filename, artist, title, fps, tags) ==
    [filename |-> filename, artist |-> artist, title |-> title,
     fps |-> fps, tags |-> tags]

Uploads ==
    { \* a song with both fields: the file is renamed 1__Artist-Z__Title-Z.wav
      Upload("song.wav", Some("Artist Z"), Some("Title Z"),
             << [fingerprint_hash |-> 13, n |-> 1200] >>, <<None, None, None>>),
      \* an artist with a path separator in its name
      Upload("live.wav", Some("AC/DC"), Some("T"),
             << [fingerprint_hash |-> 16, n |-> 3] >>, <<None, None, None>>),
      \* no fields: the file keeps its temporary name, the tags name the song
      Upload("take.1.mp3", None, None,
             << [fingerprint_hash |-> 12, n |-> 60], [fingerprint_hash |-> 17, n |-> 2] >>,
             <<Some("Tag Artist"), Some("Tag Album"), None>>) }

Deployments ==
    { \* the defaults, two devices
      [config |-> <<10, 60, TRUE>>, registrar |-> {}, local_files |-> {},
       devices |-> [u \in Uids |-> Device({1}, {20, 120})]],
      \* the defaults, one device that changes its rate and sends odd lengths
      [config |-> <<10, 60, TRUE>>, registrar |-> {}, local_files |-> {},
       devices |-> [u \in {"u1"} |-> Device({1, 2}, {1, 20})]],
      \* the defaults, one device that declares invalid rates and empty chunks
      [config |-> <<10, 60, TRUE>>, registrar |-> {}, local_files |-> {},
       devices |-> [u \in {"u1"} |-> Device({-1, 0, 1}, {0, 20})]],
      \* one setting away from its default at a time
      [config |-> <<70, 60, TRUE>>, registrar |-> {}, local_files |-> {},
       devices |-> [u \in {"u1"} |-> Device({1}, {1, 20, 120})]],
      [config |-> <<10, 90, TRUE>>, registrar |-> {}, local_files |-> {},
       devices |-> [u \in {"u1"} |-> Device({1}, {1, 20, 120})]],
      [config |-> <<10, 60, FALSE>>, registrar |-> {}, local_files |-> {},
       devices |-> [u \in {"u1"} |-> Device({1}, {20, 120})]],
      \* the defaults, one device and a client that registers songs under
      \* an artist and a title
      [config |-> <<10, 60, TRUE>>, local_files |-> {},
       registrar |-> {form \in Uploads : form.artist /= None},
       devices |-> [u \in {"u1"} |-> Device({1}, {20})]],
      \* the defaults, one device, a client that registers tagged files and
      \* an operator who registers them with the script
      [config |-> <<10, 60, TRUE>>,
       local_files |-> {form \in Uploads : form.artist = None},
       registrar |-> {form \in Uploads : form.artist = None},
       devices |-> [u \in {"u1"} |-> Device({1}, {20})]] }

\* the body of a chunk of n bytes: a ramp, so that positions are told apart
Chunk(n) == [i \in 1..n |-> i % 256]

(***************************************************************************)
(* Program constants.                                                      *)
(***************************************************************************)
bytes_per_sample == 2
max_duration == 60
keep_seconds == 30
batch_size == 1000

(***************************************************************************)
(* The fingerprint store (Supabase tables `hashes` and `song_info`) as it  *)
(* is when the service starts.  A row group [fingerprint_hash, song_id, n] *)
(* stands for n rows of the `hashes` table with that hash and song id (at  *)
(* n different offsets).                                                   *)
(***************************************************************************)
hashes_rows ==
    << [fingerprint_hash |-> 11, song_id |-> "sA", n |-> 2000],
       [fingerprint_hash |-> 12, song_id |-> "sB", n |-> 60],
       [fingerprint_hash |-> 13, song_id |-> "sC", n |-> 5],
       [fingerprint_hash |-> 14, song_id |-> "sD", n |-> 150],
       [fingerprint_hash |-> 15, song_id |-> "sE", n |-> 60] >>

\* song_info rows; song "sD" has fingerprints but no metadata row
song_info_rows ==
    << [song_id |-> "sA", artist |-> "Artist A", album |-> "Album A", title |-> "Title A"],
       [song_id |-> "sB", artist |-> "Unknown", album |-> "Unknown", title |-> "Title B"],
       [song_id |-> "sC", artist |-> "Artist C", album |-> "Album C", title |-> "Title C"],
       [song_id |-> "sE", artist |-> "Artist E", album |-> "Album E", title |-> "Title E"] >>

\* results of fingerprint.fingerprint_file: it raises, or returns a list of
\* (hash, offset) pairs (possibly empty)
Extracted(raises, fps, db_ok) == [raises |-> raises, fps |-> fps, db_ok |-> db_ok]
\* db_ok: the store answers the first query of this evaluation (else the
\* client is not configured or the query raises)
Evaluations ==
    { Extracted(TRUE, <<>>, TRUE),
      Extracted(FALSE, <<>>, TRUE),
      Extracted(FALSE, << <<99, 0>> >>, TRUE),
      Extracted(FALSE, << <<11, 0>> >>, TRUE),
      Extracted(FALSE, << <<11, 0>> >>, FALSE),
      Extracted(FALSE, << <<12, 0>> >>, TRUE),
      Extracted(FALSE, << <<13, 0>> >>, TRUE),
      Extracted(FALSE, << <<14, 0>> >>, TRUE) }

\* what one call of recognize_song got: the result of the extractor,
\* whether the store answered every query made, the match list it returned,
\* what get_song_info_supabase returned for the best match, and the number
\* of rows of song_info the store held for that song when it was asked
Evaluation(ex, db_ok, matches, info, rows) ==
    [raises |-> ex.raises, fps |-> ex.fps, db_ok |-> db_ok,
     matches |-> matches, info |-> info, rows |-> rows]

(***************************************************************************)
(* supabase_storage.py                                                     *)
(***************************************************************************)
Min(a, b) == IF a <= b THEN a ELSE b
Max(a, b) == IF a >= b THEN a ELSE b

\* rows of `hashes` whose fingerprint_hash is IN batch_hashes, in table order
SelectIn(batch_hashes) ==
    LET InBatch(row) == \E i \in 1..Len(batch_hashes) : batch_hashes[i] = row.fingerprint_hash
        hit == SelectSeq(hashes_table, InBatch)
    IN  [i \in 1..Len(hit) |-> [song_id |-> hit[i].song_id, n |-> hit[i].n]]

\* hash_values = [fp[0] for fp in fingerprints]
HashValues(fingerprints) == [i \in 1..Len(fingerprints) |-> fingerprints[i][1]]

\* one turn of the loop of get_matches_supabase: the answer of the store to
\* the query for hash_values[i:i+size]
MatchBatch(hash_values, size, i) ==
    SelectIn(SubSeq(hash_values, i + 1, Min(i + size, Len(hash_values))))

\* the loop `for i in range(0, len(hash_values), batch_size)` from offset i
\* on, on a table that no one writes meanwhile
RECURSIVE MatchBatches(_, _, _)
MatchBatches(hash_values, size, i) ==
    IF i >= Len(hash_values) THEN <<>>
    ELSE MatchBatch(hash_values, size, i) \o MatchBatches(hash_values, size, i + size)

\* get_matches_supabase on a table that no one writes during the call.
\* db_ok = FALSE: the client is not configured or the query raises; both
\* give the empty list
get_matches_supabase(fingerprints, db_ok) ==
    IF ~db_ok THEN <<>>
    ELSE MatchBatches(HashValues(fingerprints), batch_size, 0)

\* get_song_by_id_supabase that answers a placeholder row for a song
\* without metadata
get_song_by_id_supabase_Placeholder(song_id, db_ok) ==
    IF ~db_ok THEN None
    ELSE LET data == SelectSeq(song_info_table, LAMBDA row : row.song_id = song_id)
         IN  IF Len(data) > 0
             THEN Some(<<data[1].artist, data[1].album, data[1].title>>)
             ELSE Some(<<"Unknown", "Unknown", "Unknown">>)

get_song_by_id_supabase(song_id, db_ok) ==
    IF ~db_ok THEN None
    ELSE LET data == SelectSeq(song_info_table, LAMBDA row : row.song_id = song_id)
         IN  IF Len(data) > 0
             THEN Some(<<data[1].artist, data[1].album, data[1].title>>)
             ELSE None

get_song_info_supabase(song_id, db_ok) == get_song_by_id_supabase(song_id, db_ok)

\* Path(filepath).name: the last component of the path; the components are
\* what stands between the separators, empty ones and "." left out
PathName(filepath) ==
    LET seps == { i \in 0..(Len(filepath) + 1) :
                    i = 0 \/ i = Len(filepath) + 1 \/ SubSeq(filepath, i, i) = "/" }
        next(i) == CHOOSE j \in seps : j > i /\ \A k \in seps : k > i => j <= k
        part(i) == SubSeq(filepath, i + 1, next(i) - 1)
        parts == { i \in seps : i <= Len(filepath) /\ part(i) /= "" /\ part(i) /= "." }
    IN  IF parts = {} THEN ""
        ELSE part(CHOOSE i \in parts : \A j \in parts : j <= i)

\* the position of the last `char` of s, 0 when s has none (str.rfind + 1)
rfind(s, char) ==
    LET found == { i \in 1..Len(s) : SubSeq(s, i, i) = char }
    IN  IF found = {} THEN 0 ELSE CHOOSE i \in found : \A j \in found : j <= i

\* Path(filepath).stem: the name without its suffix; the suffix starts at
\* the last dot of the name unless that dot opens or ends the name
PathStem(filepath) ==
    LET name == PathName(filepath)
        dotIndex == rfind(name, ".")
    IN  IF 1 < dotIndex /\ dotIndex < Len(name)
        THEN SubSeq(name, 1, dotIndex - 1)
        ELSE name

\* get_song_id_from_path: the md5 digest of the name of the file, kept as
\* the name it digests
get_song_id_from_path(filepath) == "md5:" \o PathName(filepath)

\* len(fingerprints) of a run length encoded list
RECURSIVE CountOf(_)
CountOf(fingerprints) ==
    IF fingerprints = <<>> THEN 0
    ELSE Head(fingerprints).n + CountOf(Tail(fingerprints))

\* data[:k] of a run length encoded list
RECURSIVE FirstOf(_, _)
FirstOf(fingerprints, k) ==
    IF fingerprints = <<>> \/ k <= 0 THEN <<>>
    ELSE IF Head(fingerprints).n <= k
    THEN <<Head(fingerprints)>> \o FirstOf(Tail(fingerprints), k - Head(fingerprints).n)
    ELSE << [Head(fingerprints) EXCEPT !.n = k] >>

\* data[k:] of a run length encoded list
RECURSIVE RestOf(_, _)
RestOf(fingerprints, k) ==
    IF fingerprints = <<>> \/ k <= 0 THEN fingerprints
    ELSE IF Head(fingerprints).n <= k
    THEN RestOf(Tail(fingerprints), k - Head(fingerprints).n)
    ELSE << [Head(fingerprints) EXCEPT !.n = @ - k] >> \o Tail(fingerprints)

\* What the store does with one call: it applies it, or it refuses it (it
\* is not configured, not reachable, or rejects the rows) and the call
\* raises.
StoreAnswers == {"ok", "fails"}

\* store_song_supabase: the rows of song_info after the upsert; the table
\* has no key (SCHEMA_SQL), so the row is added
store_song_supabase(song_id, artist, album, title) ==
    Append(song_info_table,
           [song_id |-> song_id, artist |-> artist, album |-> album, title |-> title])

\* rows added at the end of the table; rows of one hash and one song that
\* follow each other are held as one group
RECURSIVE Inserted(_, _)
Inserted(table, rows) ==
    IF rows = <<>> THEN table
    ELSE IF /\ table /= <<>>
            /\ table[Len(table)].fingerprint_hash = Head(rows).fingerprint_hash
            /\ table[Len(table)].song_id = Head(rows).song_id
    THEN Inserted([table EXCEPT ![Len(table)].n = @ + Head(rows).n], Tail(rows))
    ELSE Inserted(Append(table, Head(rows)), Tail(rows))

\* store_fingerprints_supabase, one turn of its loop: the rows of `hashes`
\* after the insert of the batch data[i:i+batch_size]
store_fingerprints_supabase(song_id, fingerprints, i) ==
    LET batch == FirstOf(RestOf(fingerprints, i), batch_size)
    IN  Inserted(hashes_table,
                 [k \in 1..Len(batch) |->
                     [fingerprint_hash |-> batch[k].fingerprint_hash,
                      song_id |-> song_id, n |-> batch[k].n]])

(***************************************************************************)
(* omi_song_recognition_webhook.py: scoring                                *)
(***************************************************************************)
\* collections.Counter(matches): counts per song id, in first-seen order
RECURSIVE Counter(_)
Counter(matches) ==
    IF matches = <<>> THEN <<>>
    ELSE LET front == Counter(SubSeq(matches, 1, Len(matches) - 1))
             m == matches[Len(matches)]
             seen == \E i \in 1..Len(front) : front[i].song_id = m.song_id
         IN  IF seen
             THEN [i \in 1..Len(front) |->
                      IF front[i].song_id = m.song_id
                      THEN [front[i] EXCEPT !.n = @ + m.n]
                      ELSE front[i]]
             ELSE Append(front, m)

\* most_common(1) that takes the last entry holding the largest count
most_common_1_LastSeen(counts) ==
    LET best == CHOOSE i \in 1..Len(counts) :
                    /\ \A j \in 1..Len(counts) : counts[j].n <= counts[i].n
                    /\ \A j \in (i + 1)..Len(counts) : counts[j].n < counts[i].n
    IN  counts[best]

\* Counter.most_common(1)[0]: the first entry holding the largest count
most_common_1(counts) ==
    LET best == CHOOSE i \in 1..Len(counts) :
                    /\ \A j \in 1..Len(counts) : counts[j].n <= counts[i].n
                    /\ \A j \in 1..(i - 1) : counts[j].n < counts[i].n
    IN  counts[best]

\* calculate_confidence with the top boundary included in the upper band
calculate_confidence_inclusive(score) ==
    IF score >= 1000 THEN 100
    ELSE IF score > 100 THEN 90
    ELSE IF score > 50 THEN 70
    ELSE IF score > 10 THEN 40
    ELSE 10

calculate_confidence(score) ==
    IF score > 1000 THEN 100
    ELSE IF score > 100 THEN 90
    ELSE IF score > 50 THEN 70
    ELSE IF score > 10 THEN 40
    ELSE 10

\* `recognized` true for every candidate, whatever its confidence
is_recognized_AnyConfidence(confidence) == confidence > 0

\* `confidence > 0.5` of recognize_song
is_recognized(confidence) == confidence > 50

\* lines 137-141: the song with the most matches and its tally
BestMatch(matches) == most_common_1(Counter(matches))

\* recognize_song from the answers of the store on: `matches` is what
\* get_matches_supabase returned, `song_info` what get_song_info_supabase
\* returned for the best match (None: no row, or the query failed)
recognize_song(matches, song_info) ==
    IF matches = <<>> THEN None
    ELSE LET score == BestMatch(matches).n
         IN  IF song_info = None THEN None
             ELSE LET artist == song_info[1][1]
                      album == song_info[1][2]
                      title == song_info[1][3]
                      confidence == calculate_confidence(score)
                      \* the string "None" stands for Python None
                  IN  Some([artist |-> IF artist /= "Unknown" THEN artist ELSE "None",
                            album |-> IF album /= "Unknown" THEN album ELSE "None",
                            title |-> IF title /= "Unknown" THEN title ELSE "None",
                            confidence |-> confidence,
                            score |-> score,
                            recognized |-> is_recognized(confidence)])

\* format_notification_message with the 0.8 boundary in the plain tier
format_notification_message_PlainFrom80(song_info) ==
    LET confidence == song_info.confidence
    IN  [title |-> song_info.title,
         artist |-> song_info.artist,
         certainty |-> IF confidence >= 80 THEN ""
                       ELSE IF confidence > 50 THEN " (likely)"
                       ELSE " (maybe)"]

\* lines 256-274: the message "You're listening to: '{title}' by
\* {artist}{certainty}", kept as its three variable parts
format_notification_message(song_info) ==
    LET confidence == song_info.confidence
    IN  [title |-> song_info.title,
         artist |-> song_info.artist,
         certainty |-> IF confidence > 80 THEN ""
                       ELSE IF confidence > 50 THEN " (likely)"
                       ELSE " (maybe)"]

(***************************************************************************)
(* omi_song_recognition_webhook.py: sessions and durations                 *)
(***************************************************************************)
\* len(bytes) / bytes_per_sample / sample_rate >= seconds   (sample_rate /= 0)
DurationGE(nbytes, sample_rate, seconds) ==
    IF sample_rate > 0
    THEN nbytes >= seconds * sample_rate * bytes_per_sample
    ELSE nbytes <= seconds * sample_rate * bytes_per_sample

\* len(bytes) / bytes_per_sample / sample_rate > seconds    (sample_rate /= 0)
DurationGT(nbytes, sample_rate, seconds) ==
    IF sample_rate > 0
    THEN nbytes > seconds * sample_rate * bytes_per_sample
    ELSE nbytes < seconds * sample_rate * bytes_per_sample

\* the Python slice b[-k:]
SliceLast(b, k) ==
    LET start == IF k > 0 THEN Max(Len(b) - k, 0) ELSE Min(-k, Len(b))
    IN  SubSeq(b, start + 1, Len(b))

\* the trim with the number of samples taken for the number of bytes
TrimmedBytes_KeepsSamples(b, sample_rate) ==
    LET samples_to_keep == keep_seconds * sample_rate
    IN  SliceLast(b, samples_to_keep)

\* audio_buffers[uid]['bytes'][-samples_to_keep:] of the trim branch
TrimmedBytes(b, sample_rate) ==
    LET samples_to_keep == keep_seconds * sample_rate * bytes_per_sample
    IN  SliceLast(b, samples_to_keep)

\* the trim test of the no-match branch: `if duration > max_duration`
ShouldTrim(nbytes, sample_rate) == DurationGT(nbytes, sample_rate, max_duration)

\* the gate: `if duration >= MIN_AUDIO_LENGTH`
ShouldEvaluate(nbytes, sample_rate) == DurationGE(nbytes, sample_rate, MIN_AUDIO_LENGTH)

NewSession(sample_rate) ==
    [bytes |-> <<>>, sample_rate |-> sample_rate, last_recognition |-> None]

\* the append with the buffer replaced by the chunk instead of extended
Appended_Replaces(buffers, uid, sample_rate, audio_bytes) ==
    LET created == IF uid \in DOMAIN buffers THEN buffers
                   ELSE buffers @@ (uid :> NewSession(sample_rate))
    IN  [created EXCEPT ![uid].bytes = audio_bytes,
                        ![uid].sample_rate = sample_rate]

\* the append without line 309: the rate of the first chunk stays
Appended_KeepsFirstRate(buffers, uid, sample_rate, audio_bytes) ==
    LET created == IF uid \in DOMAIN buffers THEN buffers
                   ELSE buffers @@ (uid :> NewSession(sample_rate))
    IN  [created EXCEPT ![uid].bytes = @ \o audio_bytes]

\* lines 311-314 and 422-425: duration = len(bytes) / bytes_per_sample /
\* sample_rate, kept as the fraction num / den
Duration(nbytes, sample_rate) ==
    [num |-> nbytes, den |-> bytes_per_sample * sample_rate]

\* lines 299-309: create the session when the uid is new, extend the bytes,
\* overwrite the sample rate
Appended(buffers, uid, sample_rate, audio_bytes) ==
    LET created == IF uid \in DOMAIN buffers THEN buffers
                   ELSE buffers @@ (uid :> NewSession(sample_rate))
    IN  [created EXCEPT ![uid].bytes = @ \o audio_bytes,
                        ![uid].sample_rate = sample_rate]

Session(buffers, uid) == IF uid \in DOMAIN buffers THEN Some(buffers[uid]) ELSE None

wav_filename(uid) == <<"omi_audio", uid>>

(***************************************************************************)
(* Requests and their outcomes.                                            *)
(***************************************************************************)
AudioRequest(uid, sample_rate, n) ==
    [kind |-> "audio", uid |-> uid, sample_rate |-> sample_rate, audio_bytes |-> Chunk(n)]
StatsRequest(uid) ==
    [kind |-> "stats", uid |-> uid, sample_rate |-> 0, audio_bytes |-> <<>>]
DeleteRequest(uid) ==
    [kind |-> "delete", uid |-> uid, sample_rate |-> 0, audio_bytes |-> <<>>]
\* POST /register carries no uid
RegisterRequest(form) ==
    [kind |-> "register", uid |-> "", sample_rate |-> 0, audio_bytes |-> <<>>,
     form |-> form]

\* the requests the devices and the registrar of the deployment can send
ClientRequests ==
    UNION { { AudioRequest(uid, sr, n) : sr \in devices[uid].rates, n \in devices[uid].sizes }
            \cup { StatsRequest(uid), DeleteRequest(uid) } : uid \in DOMAIN devices }
    \cup { RegisterRequest(form) : form \in registrar }

\* what the handler of request q leaves in `last` when it returns; `pre` is
\* the session before the request (None when there was none)
Base(q, pre) ==
    [kind |-> q.kind, uid |-> q.uid, sample_rate |-> q.sample_rate,
     chunk |-> q.audio_bytes, pre |-> pre,
     ready |-> "no",        \* "yes": duration >= MIN_AUDIO_LENGTH; "raise": the division raised
     wav |-> "none",        \* outcome of create_wav_file
     evaluated |-> FALSE,   \* recognize_song was called
     extracted |-> None,    \* what the extractor and the store did in it
     song_info |-> None,    \* what recognize_song returned
     notify |-> "none",     \* outcome of send_notification_to_user: "skipped",
                            \* "ok", "timeout", "error" or "http_error"
     message |-> None,      \* the message given to the notification endpoint
     trimmed |-> FALSE, cleared |-> FALSE,
     code |-> 200, body |-> [status |-> "ok"]]

\* the handler returns: the event loop is free again
Return(outcome) ==
    /\ running' = None
    /\ last' = Some(outcome)

OkBody(q) == [status |-> "ok", received_bytes |-> Len(q.audio_bytes)]
ErrorBody == [status |-> "error"]

Config == <<MIN_AUDIO_LENGTH, MAX_BUFFER_DURATION, omi_configured, devices, registrar,
            local_files>>

Store == <<hashes_table, song_info_table>>

(***************************************************************************)
(* POST /audio: audio_webhook                                              *)
(***************************************************************************)
\* lines 293-331: from the body read to the call of recognize_song.  The
\* handler returns here when the duration is below the floor, when the
\* division raises (sample_rate = 0) and when create_wav_file raises; else
\* it enters recognize_song and keeps the event loop.
audio_webhook(q) ==
    LET uid == q.uid
        sample_rate == q.sample_rate
        pre == Session(audio_buffers, uid)
        buffers == Appended(audio_buffers, uid, sample_rate, q.audio_bytes)
        nbytes == Len(buffers[uid].bytes)
    IN  /\ audio_buffers' = buffers
        /\ IF sample_rate = 0
           THEN \* ZeroDivisionError, caught by the outer except
                /\ Return([Base(q, pre) EXCEPT !.ready = "raise",
                               !.code = 500, !.body = ErrorBody])
                /\ UNCHANGED <<tmp_files, calls>>
           ELSE IF ~ShouldEvaluate(nbytes, sample_rate)
           THEN /\ Return([Base(q, pre) EXCEPT !.body = OkBody(q)])
                /\ UNCHANGED <<tmp_files, calls>>
           ELSE \E wav \in {"ok", "open_fails", "write_fails"} :
                  IF wav = "ok"
                  THEN /\ tmp_files' = tmp_files \cup {wav_filename(uid)}
                       /\ running' = Some([q |-> q, pre |-> pre, stage |-> "recognize",
                                           extracted |-> None, song_info |-> None,
                                           matches |-> <<>>, i |-> 0])
                       /\ last' = None
                       /\ calls' = [calls EXCEPT !.ready = @ + 1, !.recognize = @ + 1]
                  ELSE \* create_wav_file raises; the finally block removes
                       \* what was written; the outer except answers 500
                       /\ tmp_files' = tmp_files \ {wav_filename(uid)}
                       /\ calls' = [calls EXCEPT !.ready = @ + 1, !.wav_failed = @ + 1]
                       /\ Return([Base(q, pre) EXCEPT !.ready = "yes", !.wav = wav,
                                      !.code = 500, !.body = ErrorBody])

\* the branch of a recognized song without the clear of line 352
Recognized_KeepsBuffer(run, ex, song_info, notify) ==
    LET uid == run.q.uid
    IN  /\ audio_buffers' = [audio_buffers EXCEPT ![uid].last_recognition = song_info]
        /\ tmp_files' = tmp_files \ {wav_filename(uid)}
        /\ calls' = [calls EXCEPT !.notify = @ + 1]
        /\ Return([Base(run.q, run.pre) EXCEPT
                      !.ready = "yes", !.wav = "ok", !.evaluated = TRUE,
                      !.extracted = Some(ex), !.song_info = song_info,
                      !.notify = notify,
                      !.message = IF notify = "skipped" THEN None
                                  ELSE Some(format_notification_message(song_info[1])),
                      !.body = OkBody(run.q)])

\* the branch of a recognized song when a failed delivery raises instead of
\* returning False: lines 349-352 are skipped and the outer except answers
Recognized_NotifyRaises(run, ex, song_info, notify) ==
    LET uid == run.q.uid
        failed == notify \in {"timeout", "error", "http_error"}
    IN  /\ audio_buffers' = IF failed THEN audio_buffers
                            ELSE [audio_buffers EXCEPT ![uid].last_recognition = song_info,
                                                       ![uid].bytes = <<>>]
        /\ tmp_files' = tmp_files \ {wav_filename(uid)}
        /\ calls' = [calls EXCEPT !.notify = @ + 1]
        /\ Return([Base(run.q, run.pre) EXCEPT
                      !.ready = "yes", !.wav = "ok", !.evaluated = TRUE,
                      !.extracted = Some(ex), !.song_info = song_info,
                      !.notify = notify,
                      !.message = IF notify = "skipped" THEN None
                                  ELSE Some(format_notification_message(song_info[1])),
                      !.cleared = ~failed,
                      !.code = IF failed THEN 500 ELSE 200,
                      !.body = IF failed THEN ErrorBody ELSE OkBody(run.q)])

\* the branch of a recognized song with the session dropped instead of
\* emptied at line 352
Recognized_DropsSession(run, ex, song_info, notify) ==
    LET uid == run.q.uid
    IN  /\ audio_buffers' = [u \in DOMAIN audio_buffers \ {uid} |-> audio_buffers[u]]
        /\ tmp_files' = tmp_files \ {wav_filename(uid)}
        /\ calls' = [calls EXCEPT !.notify = @ + 1]
        /\ Return([Base(run.q, run.pre) EXCEPT
                      !.ready = "yes", !.wav = "ok", !.evaluated = TRUE,
                      !.extracted = Some(ex), !.song_info = song_info,
                      !.notify = notify,
                      !.message = IF notify = "skipped" THEN None
                                  ELSE Some(format_notification_message(song_info[1])),
                      !.cleared = TRUE, !.body = OkBody(run.q)])

\* lines 337-352 and 365-375: the branch of a recognized song, after
\* send_notification_to_user returned
Recognized(run, ex, song_info, notify) ==
    LET uid == run.q.uid
    IN  /\ audio_buffers' = [audio_buffers EXCEPT ![uid].last_recognition = song_info,
                                                  ![uid].bytes = <<>>]
        /\ tmp_files' = tmp_files \ {wav_filename(uid)}
        /\ calls' = [calls EXCEPT !.notify = @ + 1]
        /\ Return([Base(run.q, run.pre) EXCEPT
                      !.ready = "yes", !.wav = "ok", !.evaluated = TRUE,
                      !.extracted = Some(ex), !.song_info = song_info,
                      !.notify = notify,
                      !.message = IF notify = "skipped" THEN None
                                  ELSE Some(format_notification_message(song_info[1])),
                      !.cleared = TRUE, !.body = OkBody(run.q)])

\* the branch of no recognized song with line 349 moved out of the `if`:
\* the result is stored whatever it is
NotRecognized_StoresResult(run, ex, song_info) ==
    LET uid == run.q.uid
        sample_rate == run.q.sample_rate
        b == audio_buffers[uid].bytes
        trim == ShouldTrim(Len(b), sample_rate)
    IN  /\ audio_buffers' = [audio_buffers EXCEPT
                                ![uid].last_recognition = song_info,
                                ![uid].bytes = IF trim THEN TrimmedBytes(b, sample_rate) ELSE b]
        /\ tmp_files' = tmp_files \ {wav_filename(uid)}
        /\ UNCHANGED calls
        /\ Return([Base(run.q, run.pre) EXCEPT
                      !.ready = "yes", !.wav = "ok", !.evaluated = TRUE,
                      !.extracted = Some(ex), !.song_info = song_info,
                      !.trimmed = trim, !.body = OkBody(run.q)])

\* the branch of no recognized song without the `finally` of lines 365-369
NotRecognized_LeavesFile(run, ex, song_info) ==
    LET uid == run.q.uid
        sample_rate == run.q.sample_rate
        b == audio_buffers[uid].bytes
        trim == ShouldTrim(Len(b), sample_rate)
    IN  /\ audio_buffers' = IF trim
                            THEN [audio_buffers EXCEPT ![uid].bytes = TrimmedBytes(b, sample_rate)]
                            ELSE audio_buffers
        /\ UNCHANGED <<tmp_files, calls>>
        /\ Return([Base(run.q, run.pre) EXCEPT
                      !.ready = "yes", !.wav = "ok", !.evaluated = TRUE,
                      !.extracted = Some(ex), !.song_info = song_info,
                      !.trimmed = trim, !.body = OkBody(run.q)])

\* lines 353-375: the branch of no recognized song
NotRecognized(run, ex, song_info) ==
    LET uid == run.q.uid
        sample_rate == run.q.sample_rate
        b == audio_buffers[uid].bytes
        trim == ShouldTrim(Len(b), sample_rate)
    IN  /\ audio_buffers' = IF trim
                            THEN [audio_buffers EXCEPT ![uid].bytes = TrimmedBytes(b, sample_rate)]
                            ELSE audio_buffers
        /\ tmp_files' = tmp_files \ {wav_filename(uid)}
        /\ UNCHANGED calls
        /\ Return([Base(run.q, run.pre) EXCEPT
                      !.ready = "yes", !.wav = "ok", !.evaluated = TRUE,
                      !.extracted = Some(ex), !.song_info = song_info,
                      !.trimmed = trim, !.body = OkBody(run.q)])

\* the gate of line 337 without its second test: `if song_info`
IsConfident_AnyCandidate(song_info) == song_info /= None

\* the gate of line 337: `if song_info and song_info['recognized']`
IsConfident(song_info) == song_info /= None /\ song_info[1].recognized

\* recognize_song up to the answer of the store to a query of
\* get_matches_supabase (lines 119-135; supabase_storage.py 145-167).  The
\* first step of an evaluation also takes what fingerprint_file returned.
\* recognize_song returns None, and the handler goes on as for no confident
\* result, when the extractor raised or found nothing, when a query failed
\* and when the last query leaves the match list empty; with matches it
\* goes on to get_song_info_supabase, still keeping the loop.
get_matches_returns ==
    /\ running /= None /\ running[1].stage = "recognize"
    /\ \E ex \in IF running[1].extracted = None THEN Evaluations
                  ELSE { Extracted(FALSE, running[1].extracted[1].fps, answer = "ok") :
                           answer \in StoreAnswers } :
         LET run == running[1]
             matches == run.matches \o MatchBatch(HashValues(ex.fps), batch_size, run.i)
         IN  IF ex.raises \/ Len(ex.fps) = 0 \/ ~ex.db_ok
             THEN NotRecognized(run, Evaluation(ex, ex.db_ok, <<>>, None, 0), None)
             ELSE IF run.i + batch_size < Len(ex.fps)
             THEN /\ running' = Some([run EXCEPT !.extracted = Some(ex),
                                          !.matches = matches, !.i = @ + batch_size])
                  /\ last' = None
                  /\ UNCHANGED <<audio_buffers, tmp_files, calls>>
             ELSE IF matches = <<>>
             THEN NotRecognized(run, Evaluation(ex, TRUE, <<>>, None, 0), None)
             ELSE /\ running' = Some([run EXCEPT !.stage = "song_info",
                                          !.extracted = Some(ex), !.matches = matches])
                  /\ last' = None
                  /\ UNCHANGED <<audio_buffers, tmp_files, calls>>
    /\ UNCHANGED <<Config, script, Store, uploads, waiting, nreq, probe>>

\* recognize_song returns and line 349 runs before line 341: the result is
\* recorded before send_notification_to_user is called
recognize_returns_RecordsFirst ==
    /\ running /= None /\ running[1].stage = "song_info"
    /\ \E answer \in StoreAnswers :
         LET run == running[1]
             song_id == BestMatch(run.matches).song_id
             info == get_song_info_supabase(song_id, answer = "ok")
             song_info == recognize_song(run.matches, info)
             rows == Len(SelectSeq(song_info_table, LAMBDA row : row.song_id = song_id))
             ex == Evaluation(run.extracted[1], answer = "ok", run.matches, info, rows)
         IN  IF IsConfident(song_info)
             THEN IF omi_configured
                  THEN /\ running' = Some([run EXCEPT !.stage = "notify",
                                               !.extracted = Some(ex),
                                               !.song_info = song_info])
                       /\ last' = None
                       /\ audio_buffers' = [audio_buffers EXCEPT
                              ![run.q.uid].last_recognition = song_info]
                       /\ UNCHANGED <<tmp_files, calls>>
                  ELSE Recognized(run, ex, song_info, "skipped")
             ELSE NotRecognized(run, ex, song_info)
    /\ UNCHANGED <<Config, script, Store, uploads, waiting, nreq, probe>>

\* the store answers get_song_info_supabase and recognize_song returns
\* (lines 146-160, 335); a recognized song leads to the call of
\* send_notification_to_user, which returns at once without credentials
\* and else posts to the notification endpoint
recognize_returns ==
    /\ running /= None /\ running[1].stage = "song_info"
    /\ \E answer \in StoreAnswers :
         LET run == running[1]
             song_id == BestMatch(run.matches).song_id
             info == get_song_info_supabase(song_id, answer = "ok")
             song_info == recognize_song(run.matches, info)
             rows == Len(SelectSeq(song_info_table, LAMBDA row : row.song_id = song_id))
             ex == Evaluation(run.extracted[1], answer = "ok", run.matches, info, rows)
         IN  IF IsConfident(song_info)
             THEN IF omi_configured
                  THEN /\ running' = Some([run EXCEPT !.stage = "notify",
                                               !.extracted = Some(ex),
                                               !.song_info = song_info])
                       /\ last' = None
                       /\ UNCHANGED <<audio_buffers, tmp_files, calls>>
                  ELSE Recognized(run, ex, song_info, "skipped")
             ELSE NotRecognized(run, ex, song_info)
    /\ UNCHANGED <<Config, script, Store, uploads, waiting, nreq, probe>>

\* the handler is inside recognize_song: in fingerprint_file or a query of
\* get_matches_supabase ("recognize"), in get_song_info_supabase
\* ("song_info"), or in one of these calls that will not be answered
\* ("hung")
Recognizing ==
    running /= None /\ running[1].stage \in {"recognize", "song_info", "hung"}

\* the extractor or the store never answers: recognize_song carries no
\* timeout, so the handler stays inside it and keeps the event loop
recognize_hangs ==
    /\ Recognizing /\ running[1].stage /= "hung"
    /\ running' = Some([running[1] EXCEPT !.stage = "hung"])
    /\ last' = None
    /\ UNCHANGED <<Config, script, Store, uploads, audio_buffers, tmp_files, waiting, nreq, calls, probe>>

\* requests.post(..., timeout=30) returns, times out or raises (lines 239-253);
\* "http_error" is the HTTPError that raise_for_status raises on a 4xx or 5xx
\* reply, "error" any other exception (connection refused, DNS, ...)
notify_returns ==
    /\ running /= None /\ running[1].stage = "notify"
    /\ \E notify \in {"ok", "timeout", "error", "http_error"} :
         Recognized(running[1], running[1].extracted[1], running[1].song_info, notify)
    /\ UNCHANGED <<Config, script, Store, uploads, waiting, nreq, probe>>

(***************************************************************************)
(* GET /stats/{uid} and DELETE /buffer/{uid}                               *)
(***************************************************************************)
\* get_user_stats with a duration that takes the byte count for the number
\* of samples
get_user_stats_BytesAsSamples(q) ==
    LET uid == q.uid
        pre == Session(audio_buffers, uid)
    IN  /\ UNCHANGED <<audio_buffers, tmp_files, calls>>
        /\ IF uid \notin DOMAIN audio_buffers
           THEN Return([Base(q, pre) EXCEPT !.code = 404,
                            !.body = [error |-> "User not found"]])
           ELSE LET buffer_info == audio_buffers[uid]
                IN  IF buffer_info.sample_rate = 0
                    THEN Return([Base(q, pre) EXCEPT !.code = 500,
                                     !.body = [error |-> "Internal Server Error"]])
                    ELSE Return([Base(q, pre) EXCEPT !.body =
                             [uid |-> uid,
                              buffer_size_bytes |-> Len(buffer_info.bytes),
                              buffer_duration_seconds |->
                                  [num |-> Len(buffer_info.bytes),
                                   den |-> buffer_info.sample_rate],
                              sample_rate |-> buffer_info.sample_rate,
                              last_recognition |-> buffer_info.last_recognition]])

\* lines 411-436; the duration len / 2 / rate is kept as the fraction
\* num / den
get_user_stats(q) ==
    LET uid == q.uid
        pre == Session(audio_buffers, uid)
    IN  /\ UNCHANGED <<audio_buffers, tmp_files, calls>>
        /\ IF uid \notin DOMAIN audio_buffers
           THEN Return([Base(q, pre) EXCEPT !.code = 404,
                            !.body = [error |-> "User not found"]])
           ELSE LET buffer_info == audio_buffers[uid]
                IN  IF buffer_info.sample_rate = 0
                    THEN \* ZeroDivisionError leaves the handler: 500
                         Return([Base(q, pre) EXCEPT !.code = 500,
                                     !.body = [error |-> "Internal Server Error"]])
                    ELSE Return([Base(q, pre) EXCEPT !.body =
                             [uid |-> uid,
                              buffer_size_bytes |-> Len(buffer_info.bytes),
                              buffer_duration_seconds |->
                                  Duration(Len(buffer_info.bytes), buffer_info.sample_rate),
                              sample_rate |-> buffer_info.sample_rate,
                              last_recognition |-> buffer_info.last_recognition]])

\* clear_buffer that drops every session, not only that of the uid
clear_buffer_DropsAll(q) ==
    LET uid == q.uid
        pre == Session(audio_buffers, uid)
    IN  /\ UNCHANGED <<tmp_files, calls>>
        /\ IF uid \in DOMAIN audio_buffers
           THEN /\ audio_buffers' = <<>>
                /\ Return([Base(q, pre) EXCEPT
                               !.body = [status |-> "ok", message |-> "Buffer cleared"]])
           ELSE /\ UNCHANGED audio_buffers
                /\ Return([Base(q, pre) EXCEPT !.code = 404,
                               !.body = [error |-> "User not found"]])

\* clear_buffer that empties the buffer and keeps the session
clear_buffer_EmptiesOnly(q) ==
    LET uid == q.uid
        pre == Session(audio_buffers, uid)
    IN  /\ UNCHANGED <<tmp_files, calls>>
        /\ IF uid \in DOMAIN audio_buffers
           THEN /\ audio_buffers' = [audio_buffers EXCEPT ![uid].bytes = <<>>]
                /\ Return([Base(q, pre) EXCEPT
                               !.body = [status |-> "ok", message |-> "Buffer cleared"]])
           ELSE /\ UNCHANGED audio_buffers
                /\ Return([Base(q, pre) EXCEPT !.code = 404,
                               !.body = [error |-> "User not found"]])

\* lines 439-454
clear_buffer(q) ==
    LET uid == q.uid
        pre == Session(audio_buffers, uid)
    IN  /\ UNCHANGED <<tmp_files, calls>>
        /\ IF uid \in DOMAIN audio_buffers
           THEN /\ audio_buffers' = [u \in DOMAIN audio_buffers \ {uid} |-> audio_buffers[u]]
                /\ Return([Base(q, pre) EXCEPT
                               !.body = [status |-> "ok", message |-> "Buffer cleared"]])
           ELSE /\ UNCHANGED audio_buffers
                /\ Return([Base(q, pre) EXCEPT !.code = 404,
                               !.body = [error |-> "User not found"]])

\* the event loop can run a handler: no handler is blocked inside it
LoopFree == running = None

(***************************************************************************)
(* POST /register: register_song                                           *)
(***************************************************************************)
\* os.path.splitext: <<root, ext>>, cut at the last dot of the last
\* component of the path when a character other than a dot stands between
\* the start of that component and the dot
splitext(p) ==
    LET sepIndex == rfind(p, "/")
        dotIndex == rfind(p, ".")
    IN  IF /\ dotIndex > sepIndex
           /\ \E filenameIndex \in (sepIndex + 1)..(dotIndex - 1) :
                 SubSeq(p, filenameIndex, filenameIndex) /= "."
        THEN <<SubSeq(p, 1, dotIndex - 1), SubSeq(p, dotIndex, Len(p))>>
        ELSE <<p, "">>

\* str.replace(old, new) for an `old` of one character
RECURSIVE replace(_, _, _)
replace(s, old, new) ==
    IF Len(s) = 0 THEN s
    ELSE IF Len(s) = 1 THEN (IF s = old THEN new ELSE s)
    ELSE replace(SubSeq(s, 1, Len(s) \div 2), old, new)
         \o replace(SubSeq(s, Len(s) \div 2 + 1, Len(s)), old, new)

\* the longest name the file system of the temp directory takes, in bytes;
\* the names of the model are ASCII, one byte a character
NAME_MAX == 255

\* the name leads out of the temp directory into a directory that is not
\* there
HasSeparator(name) == \E i \in 1..Len(name) : SubSeq(name, i, i) = "/"

\* creating or renaming a file to `name` in the temp directory raises
\* OSError: FileNotFoundError for a directory that is not there, "File name
\* too long" for a name of more than NAME_MAX bytes
NameRaises(name) == HasSeparator(name) \/ Len(name) > NAME_MAX

\* the truth value Python gives an optional string
Truthy(field) == field /= None /\ field[1] /= ""

\* a or b or default
FirstTruthy(a, b, default) ==
    IF Truthy(a) THEN a[1] ELSE IF Truthy(b) THEN b[1] ELSE default

\* the name tempfile.NamedTemporaryFile gives its k-th file: "tmp", eight
\* random characters that differ from one file to the next, and the suffix;
\* the characters are the digits of k
Character(d) == SubSeq("0123456789", d + 1, d + 1)
RandomCharacters(k) ==
    Character((k \div 10000000) % 10) \o Character((k \div 1000000) % 10)
    \o Character((k \div 100000) % 10) \o Character((k \div 10000) % 10)
    \o Character((k \div 1000) % 10) \o Character((k \div 100) % 10)
    \o Character((k \div 10) % 10) \o Character(k % 10)
NamedTemporaryFile(k, suffix) == "tmp" \o RandomCharacters(k) \o suffix

\* the entry of tmp_files for the file `name` of the temp directory
TempFile(name) == <<"tempdir", name>>

\* line 481: the name the file gets when artist and title are given
RegisteredName(form) ==
    "1__" \o replace(form.artist[1], " ", "-") \o "__"
          \o replace(form.title[1], " ", "-") \o splitext(form.filename)[2]

\* lines 472-475: the handler makes its temporary file and awaits
\* file.read(); the event loop is free while it waits.  A suffix that makes
\* the name too long lets NamedTemporaryFile raise: the outer except
\* answers 500 and there is no file.
register_song(q) ==
    LET suffix == splitext(q.form.filename)[2]
        tmp_path == NamedTemporaryFile(calls.register + 1, suffix)
    IN  /\ calls' = [calls EXCEPT !.register = @ + 1]
        /\ UNCHANGED <<audio_buffers, running>>
        /\ IF NameRaises(tmp_path)
           THEN /\ last' = Some([Base(q, None) EXCEPT !.code = 500, !.body = ErrorBody])
                /\ UNCHANGED <<tmp_files, uploads>>
           ELSE /\ tmp_files' = tmp_files \cup {TempFile(tmp_path)}
                /\ uploads' = uploads \cup {[q |-> q, tmp_path |-> tmp_path]}
                /\ last' = None

\* lines 475-493: file.read() returns and the coroutine is resumed: the
\* content is written, the file is renamed when artist and title are given
\* (a failing rename is answered 500 by the outer except, which removes
\* nothing), and the handler enters fingerprint_file and keeps the loop
file_read_returns ==
    /\ LoopFree
    /\ \E up \in uploads :
         LET form == up.q.form
             renames == Truthy(form.artist) /\ Truthy(form.title)
         IN  /\ uploads' = uploads \ {up}
             /\ IF renames /\ NameRaises(RegisteredName(form))
                THEN /\ Return([Base(up.q, None) EXCEPT !.code = 500, !.body = ErrorBody])
                     /\ UNCHANGED tmp_files
                ELSE LET tmp_path == IF renames THEN RegisteredName(form) ELSE up.tmp_path
                     IN  /\ tmp_files' = (tmp_files \ {TempFile(up.tmp_path)})
                                             \cup {TempFile(tmp_path)}
                         /\ running' = Some([q |-> up.q, pre |-> None, stage |-> "register",
                                             extracted |-> None, song_info |-> None,
                                             tmp_path |-> tmp_path])
                         /\ last' = None
    /\ UNCHANGED <<Config, script, Store, audio_buffers, waiting, nreq, calls, probe>>

\* the answer of register_song after its inner try: the file is removed on
\* every way out of it
RegisterFails(q, tmp_path) ==
    /\ tmp_files' = tmp_files \ {TempFile(tmp_path)}
    /\ Return([Base(q, None) EXCEPT !.code = 500, !.body = ErrorBody])

\* lines 487-513 and store_song_complete up to its first call on the store:
\* fingerprint_file and get_song_info return or raise, then the upsert of
\* store_song_supabase is applied or refused.  A refusal, an exception and
\* an empty fingerprint list end in the inner except (500); otherwise the
\* handler goes on to store_fingerprints_supabase, still keeping the loop.
register_stores_song ==
    /\ running /= None /\ running[1].stage = "register"
    /\ \E extractor \in {"ok", "raises"}, upsert \in StoreAnswers :
         LET q == running[1].q
             form == q.form
             tmp_path == running[1].tmp_path
             song_fingerprint == form.fps
             final_artist == FirstTruthy(form.artist, form.tags[1], "Unknown")
             final_album == FirstTruthy(form.tags[2], None, "Unknown")
             final_title == FirstTruthy(form.title, form.tags[3], splitext(form.filename)[1])
             song_id == get_song_id_from_path(tmp_path)
         IN  IF extractor = "raises" \/ song_fingerprint = <<>> \/ upsert = "fails"
             THEN /\ RegisterFails(q, tmp_path)
                  /\ UNCHANGED Store
             ELSE /\ song_info_table' =
                        store_song_supabase(song_id, final_artist, final_album, final_title)
                  /\ running' = Some([q |-> q, pre |-> None, stage |-> "store",
                                      extracted |-> None, song_info |-> None,
                                      tmp_path |-> tmp_path, song_id |-> song_id,
                                      artist |-> final_artist, title |-> final_title,
                                      i |-> 0])
                  /\ last' = None
                  /\ UNCHANGED <<hashes_table, tmp_files>>
    /\ UNCHANGED <<Config, script, audio_buffers, uploads, waiting, nreq, calls, probe>>

\* store_fingerprints_supabase lines 98-100 and register_song lines 518-548:
\* the store applies or refuses the insert of the next batch; after the
\* last batch the file is removed and the answer is 200, after a refusal it
\* is removed and the answer is 500 (the batches before it stay)
register_inserts ==
    /\ running /= None /\ running[1].stage = "store"
    /\ \E insert \in StoreAnswers :
         LET run == running[1]
             q == run.q
             song_fingerprint == q.form.fps
         IN  IF insert = "fails"
             THEN /\ RegisterFails(q, run.tmp_path)
                  /\ UNCHANGED Store
             ELSE /\ hashes_table' =
                        store_fingerprints_supabase(run.song_id, song_fingerprint, run.i)
                  /\ UNCHANGED song_info_table
                  /\ IF run.i + batch_size < CountOf(song_fingerprint)
                     THEN /\ running' = Some([run EXCEPT !.i = @ + batch_size])
                          /\ last' = None
                          /\ UNCHANGED tmp_files
                     ELSE /\ tmp_files' = tmp_files \ {TempFile(run.tmp_path)}
                          /\ Return([Base(q, None) EXCEPT !.body =
                                 [status |-> "success", artist |-> run.artist,
                                  title |-> run.title,
                                  fingerprints |-> CountOf(song_fingerprint),
                                  song_id |-> run.song_id]])
    /\ UNCHANGED <<Config, script, audio_buffers, uploads, waiting, nreq, calls, probe>>

(***************************************************************************)
(* register_song_local.py: the script that registers a file of the         *)
(* operator's disk.  It is a process of its own: its calls on the store    *)
(* are applied whatever the event loop of the service is doing, and the    *)
(* service can write between two of them.                                  *)
(***************************************************************************)
\* register_song_local(filepath, artist, title) for a file that exists,
\* lines 22-71 and store_song_complete up to its first call on the store:
\* fingerprint_file and get_song_info return or raise, then the upsert is
\* applied or refused.  The song id is taken from the name the file has on
\* the disk, the title default is the stem of that name.
register_song_local ==
    /\ script = None /\ nreq < MaxRequests
    /\ \E form \in local_files, extractor \in {"ok", "raises"}, upsert \in StoreAnswers :
         LET filepath == form.filename
             song_fingerprints == form.fps
             final_artist == FirstTruthy(form.artist, form.tags[1], "Unknown")
             final_album == FirstTruthy(form.tags[2], None, "Unknown")
             final_title == FirstTruthy(form.title, form.tags[3], PathStem(filepath))
             song_id == get_song_id_from_path(filepath)
         IN  IF extractor = "raises" \/ song_fingerprints = <<>> \/ upsert = "fails"
             THEN UNCHANGED <<Store, script>>
             ELSE /\ song_info_table' =
                        store_song_supabase(song_id, final_artist, final_album, final_title)
                  /\ script' = Some([form |-> form, song_id |-> song_id, i |-> 0])
                  /\ UNCHANGED hashes_table
    /\ nreq' = nreq + 1
    /\ last' = None
    /\ UNCHANGED <<Config, uploads, audio_buffers, tmp_files, running, waiting, calls, probe>>

\* store_fingerprints_supabase lines 98-100 in the script: the store
\* applies or refuses the insert of the next batch; the script ends after
\* the last batch or a refusal
register_song_local_inserts ==
    /\ script /= None
    /\ \E insert \in StoreAnswers :
         LET run == script[1]
             song_fingerprints == run.form.fps
         IN  IF insert = "fails"
             THEN /\ script' = None
                  /\ UNCHANGED Store
             ELSE /\ hashes_table' =
                        store_fingerprints_supabase(run.song_id, song_fingerprints, run.i)
                  /\ UNCHANGED song_info_table
                  /\ script' = IF run.i + batch_size < CountOf(song_fingerprints)
                               THEN Some([run EXCEPT !.i = @ + batch_size])
                               ELSE None
    /\ last' = None
    /\ UNCHANGED <<Config, uploads, audio_buffers, tmp_files, running, waiting, nreq, calls,
                   probe>>

(***************************************************************************)
(* The event loop.                                                         *)
(***************************************************************************)
\* the handler the router picks for request q
Handle(q) ==
    \/ q.kind = "audio" /\ audio_webhook(q) /\ UNCHANGED uploads
    \/ q.kind = "stats" /\ get_user_stats(q) /\ UNCHANGED uploads
    \/ q.kind = "delete" /\ clear_buffer(q) /\ UNCHANGED uploads
    \/ q.kind = "register" /\ register_song(q)

\* a request arrives while the loop is free: its handler runs
request_served ==
    /\ LoopFree /\ waiting = None /\ nreq < MaxRequests
    /\ \E q \in ClientRequests : Handle(q)
    /\ nreq' = nreq + 1
    /\ UNCHANGED <<Config, script, Store, waiting, probe>>

\* a DELETE that is not held back: it removes the session at once while
\* the handler of a chunk request is blocked, and answers later
request_waits_DeletesAtOnce ==
    /\ ~LoopFree /\ waiting = None /\ nreq < MaxRequests
    /\ \E q \in ClientRequests :
         /\ waiting' = Some(q)
         /\ audio_buffers' = IF q.kind = "delete"
                              THEN [u \in DOMAIN audio_buffers \ {q.uid} |-> audio_buffers[u]]
                              ELSE audio_buffers
    /\ nreq' = nreq + 1
    /\ last' = None
    /\ UNCHANGED <<Config, script, Store, uploads, tmp_files, running, calls, probe>>

\* a handler that is not atomic: the request that arrives while another
\* handler is blocked appends its chunk at once and finishes later
request_waits_AppendsAtOnce ==
    /\ ~LoopFree /\ waiting = None /\ nreq < MaxRequests
    /\ \E q \in ClientRequests :
         /\ waiting' = Some(q)
         /\ audio_buffers' = IF q.kind = "audio"
                              THEN Appended(audio_buffers, q.uid, q.sample_rate, q.audio_bytes)
                              ELSE audio_buffers
    /\ nreq' = nreq + 1
    /\ last' = None
    /\ UNCHANGED <<Config, script, Store, uploads, tmp_files, running, calls, probe>>

\* a request arrives while a handler is blocked inside the loop: it waits
request_waits ==
    /\ ~LoopFree /\ waiting = None /\ nreq < MaxRequests
    /\ \E q \in ClientRequests : waiting' = Some(q)
    /\ nreq' = nreq + 1
    /\ last' = None
    /\ UNCHANGED <<Config, script, Store, uploads, audio_buffers, tmp_files, running, calls, probe>>

\* the loop is free again: the handler of the waiting request runs
waiting_served ==
    /\ LoopFree /\ waiting /= None
    /\ Handle(waiting[1])
    /\ waiting' = None
    /\ UNCHANGED <<Config, script, Store, nreq, probe>>

(***************************************************************************)
(* The specification.                                                      *)
(***************************************************************************)
NoProbe == [fn |-> "none"]
\* ready: requests whose duration reached MIN_AUDIO_LENGTH; wav_failed:
\* calls of create_wav_file that raised; recognize: calls of recognize_song;
\* notify: calls of send_notification_to_user; register: calls of
\* register_song
NoCalls == [ready |-> 0, wav_failed |-> 0, recognize |-> 0, notify |-> 0, register |-> 0]

\* the tables hold what they held when the service started
StoreAtStart == hashes_table = hashes_rows /\ song_info_table = song_info_rows

Init ==
    /\ \E d \in Deployments :
         /\ MIN_AUDIO_LENGTH = d.config[1]
         /\ MAX_BUFFER_DURATION = d.config[2]
         /\ omi_configured = d.config[3]
         /\ devices = d.devices
         /\ registrar = d.registrar
         /\ local_files = d.local_files
    /\ StoreAtStart /\ uploads = {} /\ script = None
    /\ audio_buffers = <<>>
    /\ tmp_files = {}
    /\ running = None
    /\ waiting = None
    /\ last = None
    /\ nreq = 0
    /\ calls = NoCalls
    /\ probe = NoProbe

Next ==
    \/ request_served
    \/ request_waits
    \/ waiting_served
    \/ get_matches_returns
    \/ recognize_returns
    \/ recognize_hangs
    \/ notify_returns
    \/ file_read_returns
    \/ register_stores_song
    \/ register_inserts
    \/ register_song_local
    \/ register_song_local_inserts

Spec == Init /\ [][Next]_vars

(***************************************************************************)
(* calculate_confidence as a function under test: the initial states draw  *)
(* a score, the action applies the function to it and to its predecessor.  *)
(***************************************************************************)
Scores == (0 - MaxScore)..MaxScore

InitConfidence ==
    /\ MIN_AUDIO_LENGTH = 10 /\ MAX_BUFFER_DURATION = 60 /\ omi_configured = TRUE
    /\ devices = <<>> /\ registrar = {} /\ local_files = {}
    /\ StoreAtStart /\ uploads = {} /\ script = None
    /\ audio_buffers = <<>>
    /\ tmp_files = {}
    /\ running = None
    /\ waiting = None
    /\ last = None
    /\ nreq = 0
    /\ calls = NoCalls
    /\ \E score \in Scores :
         probe = [fn |-> "calculate_confidence", score |-> score,
                  confidence |-> None, below |-> None]

apply_calculate_confidence ==
    /\ probe.fn = "calculate_confidence" /\ probe.confidence = None
    /\ probe' = [probe EXCEPT !.confidence = Some(calculate_confidence(probe.score)),
                              !.below = Some(calculate_confidence(probe.score - 1))]
    /\ UNCHANGED <<Config, script, Store, uploads, audio_buffers, tmp_files, running, waiting, last, nreq, calls>>

NextConfidence == apply_calculate_confidence

SpecConfidence == InitConfidence /\ [][NextConfidence]_vars

(***************************************************************************)
(* The append (lines 299-314) as a function under test: the initial states *)
(* draw a sample rate, each step appends one more chunk at that rate to    *)
(* the session of one uid and computes the duration; nothing evaluates,    *)
(* clears, trims or deletes.                                               *)
(***************************************************************************)
ProbeRates == {1, 2, 3}
ProbeSizes == {0, 1, 20, 120}

InitAppend ==
    /\ MIN_AUDIO_LENGTH = 10 /\ MAX_BUFFER_DURATION = 60 /\ omi_configured = TRUE
    /\ devices = <<>> /\ registrar = {} /\ local_files = {}
    /\ StoreAtStart /\ uploads = {} /\ script = None
    /\ audio_buffers = <<>>
    /\ tmp_files = {}
    /\ running = None
    /\ waiting = None
    /\ last = None
    /\ nreq = 0
    /\ calls = NoCalls
    /\ \E sample_rate \in ProbeRates :
         probe = [fn |-> "append", sample_rate |-> sample_rate,
                  chunks |-> <<>>, duration |-> None]

append_chunk ==
    /\ probe.fn = "append" /\ Len(probe.chunks) < MaxChunks
    /\ \E n \in ProbeSizes :
         LET buffers == Appended(audio_buffers, "u1", probe.sample_rate, Chunk(n))
         IN  /\ audio_buffers' = buffers
             /\ probe' = [probe EXCEPT
                              !.chunks = Append(@, n),
                              !.duration = Some(Duration(Len(buffers["u1"].bytes),
                                                         probe.sample_rate))]
    /\ UNCHANGED <<Config, script, Store, uploads, tmp_files, running, waiting, last, nreq, calls>>

NextAppend == append_chunk

SpecAppend == InitAppend /\ [][NextAppend]_vars

(***************************************************************************)
(* The trim (lines 361-362) as a function under test: the initial states   *)
(* draw a sample rate and a buffer, each step applies the trim to it.      *)
(***************************************************************************)
InitTrim ==
    /\ MIN_AUDIO_LENGTH = 10 /\ MAX_BUFFER_DURATION = 60 /\ omi_configured = TRUE
    /\ devices = <<>> /\ registrar = {} /\ local_files = {}
    /\ StoreAtStart /\ uploads = {} /\ script = None
    /\ tmp_files = {}
    /\ running = None
    /\ waiting = None
    /\ last = None
    /\ nreq = 0
    /\ calls = NoCalls
    /\ \E sample_rate \in ProbeRates, n \in 0..MaxLen :
         /\ audio_buffers = ("u1" :> [bytes |-> Chunk(n), sample_rate |-> sample_rate,
                                      last_recognition |-> None])
         /\ probe = [fn |-> "trim", sample_rate |-> sample_rate,
                     bytes |-> Chunk(n), times |-> 0]

apply_trim ==
    /\ probe.fn = "trim" /\ probe.times < 2
    /\ audio_buffers' = [audio_buffers EXCEPT
                            !["u1"].bytes = TrimmedBytes(@, probe.sample_rate)]
    /\ probe' = [probe EXCEPT !.times = @ + 1]
    /\ UNCHANGED <<Config, script, Store, uploads, tmp_files, running, waiting, last, nreq, calls>>

NextTrim == apply_trim

SpecTrim == InitTrim /\ [][NextTrim]_vars

(***************************************************************************)
(* format_notification_message as a function under test: the initial       *)
(* states draw a song_info with a confidence in hundredths, the action     *)
(* formats it.                                                             *)
(***************************************************************************)
Confidences == 0..MaxConfidence

InitMessage ==
    /\ MIN_AUDIO_LENGTH = 10 /\ MAX_BUFFER_DURATION = 60 /\ omi_configured = TRUE
    /\ devices = <<>> /\ registrar = {} /\ local_files = {}
    /\ StoreAtStart /\ uploads = {} /\ script = None
    /\ audio_buffers = <<>>
    /\ tmp_files = {}
    /\ running = None
    /\ waiting = None
    /\ last = None
    /\ nreq = 0
    /\ calls = NoCalls
    /\ \E confidence \in Confidences, artist \in {"Artist A", "None"} :
         probe = [fn |-> "format_notification_message",
                  song_info |-> [artist |-> artist, album |-> "Album A",
                                 title |-> "Title A", confidence |-> confidence],
                  message |-> None]

apply_format_notification_message ==
    /\ probe.fn = "format_notification_message" /\ probe.message = None
    /\ probe' = [probe EXCEPT !.message = Some(format_notification_message(probe.song_info))]
    /\ UNCHANGED <<Config, script, Store, uploads, audio_buffers, tmp_files, running, waiting, last, nreq, calls>>

NextMessage == apply_format_notification_message

SpecMessage == InitMessage /\ [][NextMessage]_vars

(***************************************************************************)
(* get_matches_supabase as a function under test: the initial states draw  *)
(* a fingerprint list, the action queries the store with it.  The lists    *)
(* are all short lists over three hashes (two of them in the store) and    *)
(* long lists, of one batch and more, that hold one stored hash at their   *)
(* first and last place and an unknown hash everywhere else.               *)
(***************************************************************************)
ProbeHashes == {11, 12, 99}

LongList(n, h) == [i \in 1..n |-> <<IF i = 1 \/ i = n THEN h ELSE 99, i>>]

FingerprintLists ==
    { [i \in DOMAIN hs |-> <<hs[i], i>>] :
          hs \in UNION { [1..m -> ProbeHashes] : m \in 0..MaxFps } }
    \cup { LongList(n, 11) : n \in {batch_size, batch_size + 1, 2 * batch_size + 1} }

InitMatches ==
    /\ MIN_AUDIO_LENGTH = 10 /\ MAX_BUFFER_DURATION = 60 /\ omi_configured = TRUE
    /\ devices = <<>> /\ registrar = {} /\ local_files = {}
    /\ StoreAtStart /\ uploads = {} /\ script = None
    /\ audio_buffers = <<>>
    /\ tmp_files = {}
    /\ running = None
    /\ waiting = None
    /\ last = None
    /\ nreq = 0
    /\ calls = NoCalls
    /\ \E fingerprints \in FingerprintLists :
         probe = [fn |-> "get_matches_supabase", fingerprints |-> fingerprints,
                  matches |-> None]

apply_get_matches_supabase ==
    /\ probe.fn = "get_matches_supabase" /\ probe.matches = None
    /\ probe' = [probe EXCEPT !.matches = Some(get_matches_supabase(probe.fingerprints, TRUE))]
    /\ UNCHANGED <<Config, script, Store, uploads, audio_buffers, tmp_files, running, waiting, last, nreq, calls>>

NextMatches == apply_get_matches_supabase

SpecMatches == InitMatches /\ [][NextMatches]_vars

(***************************************************************************)
(* The choice of the best match (lines 137-141) as a function under test:  *)
(* the initial states draw a non-empty match list over three songs, the    *)
(* action counts it and takes the most common song.                        *)
(***************************************************************************)
ProbeMatches == [song_id : {"sA", "sB", "sC"}, n : {1, 2}]

MatchLists == UNION { [1..m -> ProbeMatches] : m \in 1..MaxMatches }

InitScorer ==
    /\ MIN_AUDIO_LENGTH = 10 /\ MAX_BUFFER_DURATION = 60 /\ omi_configured = TRUE
    /\ devices = <<>> /\ registrar = {} /\ local_files = {}
    /\ StoreAtStart /\ uploads = {} /\ script = None
    /\ audio_buffers = <<>>
    /\ tmp_files = {}
    /\ running = None
    /\ waiting = None
    /\ last = None
    /\ nreq = 0
    /\ calls = NoCalls
    /\ \E matches \in MatchLists :
         probe = [fn |-> "most_common", matches |-> matches, best_match |-> None]

apply_most_common ==
    /\ probe.fn = "most_common" /\ probe.best_match = None
    /\ probe' = [probe EXCEPT !.best_match = Some(most_common_1(Counter(probe.matches)))]
    /\ UNCHANGED <<Config, script, Store, uploads, audio_buffers, tmp_files, running, waiting, last, nreq, calls>>

NextScorer == apply_most_common

SpecScorer == InitScorer /\ [][NextScorer]_vars

(***************************************************************************)
(* Properties.  `last` holds the outcome of the handler that returned in   *)
(* the step leading to the state, so a predicate on `last` and the session *)
(* speaks of the state immediately after that request.                     *)
(***************************************************************************)
Returned(kind) == last /= None /\ last[1].kind = kind

\* the handler of a chunk request is inside an external call
InChunkHandler == running /= None /\ running[1].q.kind = "audio"

\* the WAV files of evaluations that are in the temp directory
OmiAudioFiles == { f \in tmp_files : f[1] = "omi_audio" }

PreBytes(o) == IF o.pre = None THEN <<>> ELSE o.pre[1].bytes
PreRecognition(o) == IF o.pre = None THEN None ELSE o.pre[1].last_recognition
\* the buffer right after the append of the request
PostBytes(o) == PreBytes(o) \o o.chunk

\* the duration after the append, len / 2 / rate, is at least / more than
\* `seconds` (seconds >= 0; a negative rate gives a duration <= 0, a zero
\* rate gives none)
PostDurationAtLeast(o, seconds) ==
    o.sample_rate > 0 /\ Len(PostBytes(o)) >= seconds * o.sample_rate * 2
PostDurationMoreThan(o, seconds) ==
    o.sample_rate > 0 /\ Len(PostBytes(o)) > seconds * o.sample_rate * 2

\* the last k bytes of b, in order (all of b when it has fewer)
Suffix(b, k) == [i \in 1..(IF k < Len(b) THEN k ELSE Len(b)) |->
                    b[i + (IF k < Len(b) THEN Len(b) - k ELSE 0)]]

\* the request did nothing but append its chunk
OnlyAppended(o) ==
    /\ o.uid \in DOMAIN audio_buffers
    /\ audio_buffers[o.uid].bytes = PostBytes(o)
    /\ audio_buffers[o.uid].last_recognition = PreRecognition(o)
    /\ ~o.evaluated /\ o.notify = "none" /\ o.message = None
    /\ OmiAudioFiles = {}

\* C1: for every chunk request, recognize_song (the fingerprint and match
\* call) is called if and only if the duration after the append is at
\* least MIN_AUDIO_LENGTH, and a request below the floor only appends: no
\* evaluation, no notification, no trim, no clear, LastRecognition as it
\* was.
C1_EvaluatedIffDurationReached ==
    Returned("audio") =>
        /\ last[1].evaluated <=> PostDurationAtLeast(last[1], MIN_AUDIO_LENGTH)
        /\ ~PostDurationAtLeast(last[1], MIN_AUDIO_LENGTH) => OnlyAppended(last[1])

\* C2: after a chunk request whose evaluation returned a confident result
\* the session exists, its buffer is empty, its sample rate is the one the
\* request stored, and its LastRecognition is that result.
C2_ConfidentClearsAndRecords ==
    (Returned("audio") /\ last[1].evaluated /\ last[1].song_info /= None
        /\ last[1].song_info[1].confidence > 50) =>
        /\ last[1].uid \in DOMAIN audio_buffers
        /\ audio_buffers[last[1].uid].bytes = <<>>
        /\ audio_buffers[last[1].uid].sample_rate = last[1].sample_rate
        /\ audio_buffers[last[1].uid].last_recognition = last[1].song_info

\* a score of 2000 on the third evaluation
C2_Witness ==
    /\ Returned("audio") /\ last[1].evaluated /\ last[1].song_info /= None
    /\ last[1].song_info[1].score = 2000
    /\ calls.recognize = 3
    /\ audio_buffers[last[1].uid].bytes = <<>>
    /\ audio_buffers[last[1].uid].last_recognition = last[1].song_info

\* an evaluation that returned no confident result
NoConfidentResult(o) ==
    o.evaluated /\ (o.song_info = None \/ o.song_info[1].confidence <= 50)

\* C3: after an evaluation with no confident result the buffer is trimmed
\* to its last 30 seconds if and only if the duration after the append is
\* more than the configured MAX_BUFFER_DURATION, and is else left as it was
\* after the append.
C3_TrimIffOverConfiguredMax ==
    (Returned("audio") /\ NoConfidentResult(last[1])) =>
        audio_buffers[last[1].uid].bytes =
            IF PostDurationMoreThan(last[1], MAX_BUFFER_DURATION)
            THEN Suffix(PostBytes(last[1]), 30 * last[1].sample_rate * 2)
            ELSE PostBytes(last[1])

\* C4: a chunk request that reached the evaluation answers 200 with
\* {status: ok, received_bytes: length of its chunk}, whatever the
\* evaluation did.
C4_AlwaysOkReceipt ==
    (Returned("audio") /\ PostDurationAtLeast(last[1], MIN_AUDIO_LENGTH)) =>
        /\ last[1].code = 200
        /\ last[1].body = [status |-> "ok", received_bytes |-> Len(last[1].chunk)]

\* C5: a chunk that declares a zero or negative sample rate is rejected:
\* the stored sample rate of every session is a positive integer and
\* GET /stats of an existing session never fails.
C5_StoredRatePositive ==
    /\ \A uid \in DOMAIN audio_buffers : audio_buffers[uid].sample_rate > 0
    /\ (Returned("stats") /\ last[1].pre /= None) => last[1].code = 200

\* C6: calculate_confidence is a non-decreasing step function of the score
\* with values in [0, 1]: 1.0 above 1000, 0.9 above 100, 0.7 above 50,
\* 0.4 above 10, 0.1 else.
C6_ConfidenceBands ==
    (probe.fn = "calculate_confidence" /\ probe.confidence /= None) =>
        LET score == probe.score
            c == probe.confidence[1]
        IN  /\ c \in 0..100
            /\ probe.below[1] <= c
            /\ (score > 1000) => c = 100
            /\ (100 < score /\ score <= 1000) => c = 90
            /\ (50 < score /\ score <= 100) => c = 70
            /\ (10 < score /\ score <= 50) => c = 40
            /\ (score <= 10) => c = 10

\* a band boundary: 1000 gives 0.9 where 1001 gives 1.0
C6_Witness ==
    /\ probe.fn = "calculate_confidence" /\ probe.score = 1001
    /\ probe.confidence = Some(100) /\ probe.below = Some(90)

\* C7: the gate records, notifies and clears if and only if the evaluation
\* returned a candidate whose confidence is more than 0.5; no chunk request
\* hands the dispatcher a confidence of 0.5 or less or produces "(maybe)".
C7_ConfidentBranchIffOverHalf ==
    (Returned("audio") /\ last[1].evaluated) =>
        LET o == last[1]
            confident == o.song_info /= None /\ o.song_info[1].confidence > 50
        IN  /\ (o.notify /= "none") <=> confident
            /\ confident =>
                 /\ audio_buffers[o.uid].bytes = <<>>
                 /\ audio_buffers[o.uid].last_recognition = o.song_info
            /\ ~confident =>
                 /\ audio_buffers[o.uid].last_recognition = PreRecognition(o)
                 /\ Len(audio_buffers[o.uid].bytes) > 0
            /\ o.message /= None => o.message[1].certainty /= " (maybe)"

\* a candidate of confidence 0.1 came back and the gate did not notify
C7_Witness ==
    /\ Returned("audio") /\ last[1].evaluated
    /\ last[1].song_info /= None /\ last[1].song_info[1].confidence = 10
    /\ last[1].notify = "none"
    /\ audio_buffers[last[1].uid].bytes = PostBytes(last[1])

\* the extractor returned no fingerprint, or get_matches_supabase no match
EmptyEvaluation(o) ==
    /\ o.evaluated /\ ~o.extracted[1].raises
    /\ Len(o.extracted[1].fps) = 0 \/ o.extracted[1].matches = <<>>

\* C8: an empty fingerprint set or an empty match set gives no candidate:
\* no notification, LastRecognition unchanged, and the chunk request
\* answers 200 ok.
C8_EmptyGivesNoCandidate ==
    (Returned("audio") /\ EmptyEvaluation(last[1])) =>
        /\ last[1].song_info = None
        /\ last[1].notify = "none" /\ last[1].message = None
        /\ audio_buffers[last[1].uid].last_recognition = PreRecognition(last[1])
        /\ last[1].code = 200
        /\ last[1].body = [status |-> "ok", received_bytes |-> Len(last[1].chunk)]

\* the store answered the query for the fingerprints of the chunk with no
\* row, in a session that holds an earlier recognition
C8_Witness ==
    /\ Returned("audio") /\ EmptyEvaluation(last[1])
    /\ Len(last[1].extracted[1].fps) > 0 /\ last[1].extracted[1].db_ok
    /\ PreRecognition(last[1]) /= None
    /\ audio_buffers[last[1].uid].last_recognition = PreRecognition(last[1])

\* C9: no chunk request blocks for ever: whenever the handler of a chunk
\* request is inside an external call, the call can return (with a result,
\* an error or a timeout) and the handler go on.
C9_ExternalCallsReturn ==
    InChunkHandler => ENABLED (get_matches_returns \/ recognize_returns \/ notify_returns)

\* C10: chunk requests of two distinct sessions do not block each other:
\* while the evaluation or the notification of one session is in progress,
\* a chunk request of another session can be served.
C10_DistinctSessionsDoNotBlock ==
    (/\ InChunkHandler /\ waiting /= None
     /\ waiting[1].kind = "audio"
     /\ waiting[1].uid /= running[1].q.uid) => ENABLED waiting_served

\* C11: two chunk requests of one session that overlap in time act one after
\* the other.  While the handler of the first is between its append and its
\* clear or trim, the session is exactly what that append left (the bytes
\* before it followed by its chunk, its rate, the LastRecognition before
\* it), also when a second request of the session has arrived; and when a
\* chunk request returns, the session holds the bytes before it followed by
\* its chunk, or the last 30 s of them after a trim, or nothing after a
\* clear: no byte of another request is lost or doubled in between.
C11_SameSessionRequestsSerial ==
    /\ InChunkHandler =>
          LET r == running[1]
              o == Base(r.q, r.pre)
          IN  /\ r.q.uid \in DOMAIN audio_buffers
              /\ audio_buffers[r.q.uid].bytes = PostBytes(o)
              /\ audio_buffers[r.q.uid].sample_rate = r.q.sample_rate
              /\ audio_buffers[r.q.uid].last_recognition = PreRecognition(o)
    /\ Returned("audio") =>
          LET o == last[1]
              s == audio_buffers[o.uid]
          IN  /\ s.sample_rate = o.sample_rate
              /\ s.bytes = IF o.cleared THEN <<>>
                           ELSE IF o.trimmed
                           THEN Suffix(PostBytes(o), 30 * o.sample_rate * 2)
                           ELSE PostBytes(o)
              /\ s.last_recognition = IF o.cleared THEN o.song_info
                                      ELSE PreRecognition(o)

\* a chunk request of the session has arrived while the notification of an
\* earlier chunk request of the same session is in progress
C11_Witness ==
    /\ running /= None /\ running[1].stage = "notify"
    /\ waiting /= None /\ waiting[1].kind = "audio"
    /\ waiting[1].uid = running[1].q.uid
    /\ Len(PreBytes(Base(running[1].q, running[1].pre))) > 0
    /\ audio_buffers[running[1].q.uid].bytes =
           PreBytes(Base(running[1].q, running[1].pre)) \o running[1].q.audio_bytes

\* C12: a GET /stats answer is no torn read: the byte count, the sample
\* rate and the last recognition it reports are those of the session at the
\* moment of the answer, and the duration it reports is that byte count
\* / 2 / that sample rate, also when the request waited behind a chunk
\* request of the session.
C12_StatsDescribeOneMoment ==
    (Returned("stats") /\ last[1].code = 200) =>
        LET o == last[1]
            body == o.body
        IN  /\ o.uid \in DOMAIN audio_buffers
            /\ o.pre = Some(audio_buffers[o.uid])
            /\ body.buffer_size_bytes = Len(audio_buffers[o.uid].bytes)
            /\ body.sample_rate = audio_buffers[o.uid].sample_rate
            /\ body.last_recognition = audio_buffers[o.uid].last_recognition
            /\ body.buffer_duration_seconds.num = body.buffer_size_bytes
            /\ body.buffer_duration_seconds.den = 2 * body.sample_rate

\* stats of a session that holds 1 byte declared at rate 1 and 20 bytes
\* declared at rate 2: 21 bytes, rate 2, 21 / 4 seconds
C12_Witness ==
    /\ Returned("stats") /\ last[1].code = 200
    /\ last[1].body.buffer_size_bytes = 21
    /\ last[1].body.sample_rate = 2
    /\ last[1].body.buffer_duration_seconds = [num |-> 21, den |-> 4]

\* C13: the temporary WAV file of an evaluation is gone when the chunk
\* request finishes, whichever way it finishes (recognized song, no match,
\* failed evaluation, failed creation of the file): the WAV file of an
\* evaluation exists only while the handler that created it is inside its
\* evaluation or notification, and where only chunk, stats and delete
\* requests were made the temp directory is empty when no handler is
\* running.
C13_NoTempFileLeft ==
    /\ ~InChunkHandler => OmiAudioFiles = {}
    /\ InChunkHandler => OmiAudioFiles = {wav_filename(running[1].q.uid)}
    /\ Returned("audio") => wav_filename(last[1].uid) \notin tmp_files
    /\ (running = None /\ calls.register = 0) => tmp_files = {}

\* create_wav_file failed while writing, after two evaluations were made
C13_Witness ==
    /\ Returned("audio") /\ last[1].wav = "write_fails"
    /\ calls.recognize = 2 /\ calls.wav_failed = 1
    /\ tmp_files = {}

\* the session of uid as the answer of a handler found it
SessionGone(uid) == uid \notin DOMAIN audio_buffers

\* C14: GET /stats and DELETE /buffer of a uid without a session answer 404
\* and change nothing (no session is made, no file, no call); DELETE of an
\* existing session answers 200 and removes it, so that the next GET /stats
\* or DELETE of the uid finds no session and answers 404.
C14_UnknownSessionNotFound ==
    [][ (last' /= None /\ last'[1].kind \in {"stats", "delete"}) =>
          LET o == last'[1]
          IN  /\ o.pre = Session(audio_buffers, o.uid)
              /\ SessionGone(o.uid) =>
                    /\ o.code = 404
                    /\ audio_buffers' = audio_buffers
                    /\ tmp_files' = tmp_files /\ calls' = calls
              /\ (~SessionGone(o.uid) /\ o.kind = "delete") =>
                    /\ o.code = 200
                    /\ o.uid \notin DOMAIN audio_buffers'
                    /\ \A u \in DOMAIN audio_buffers \ {o.uid} :
                          u \in DOMAIN audio_buffers' /\ audio_buffers'[u] = audio_buffers[u]
      ]_vars

\* DELETE of a session that was deleted before answered 404
C14_Witness ==
    /\ Returned("delete") /\ last[1].code = 404 /\ last[1].pre = None
    /\ nreq = 3 /\ calls.ready = 1
    /\ audio_buffers = <<>>

\* C15: when the delivery of the notification fails (timeout, transport
\* failure, HTTP error status) the chunk request goes on: it records the
\* result as LastRecognition, clears the buffer and answers 200 ok.
C15_FailedDeliveryDoesNotAbort ==
    (Returned("audio") /\ last[1].notify \in {"timeout", "error", "http_error"}) =>
        /\ audio_buffers[last[1].uid].last_recognition = last[1].song_info
        /\ last[1].song_info /= None
        /\ audio_buffers[last[1].uid].bytes = <<>>
        /\ OmiAudioFiles = {}
        /\ last[1].code = 200
        /\ last[1].body = [status |-> "ok", received_bytes |-> Len(last[1].chunk)]

\* the notification endpoint answered with an error status
C15_Witness ==
    /\ Returned("audio") /\ last[1].notify = "http_error"
    /\ last[1].message /= None
    /\ audio_buffers[last[1].uid].last_recognition = last[1].song_info
    /\ audio_buffers[last[1].uid].bytes = <<>>

RECURSIVE SumOf(_)
SumOf(sizes) == IF sizes = <<>> THEN 0 ELSE Head(sizes) + SumOf(Tail(sizes))

RECURSIVE ChunksOf(_)
ChunksOf(sizes) == IF sizes = <<>> THEN <<>> ELSE Chunk(Head(sizes)) \o ChunksOf(Tail(sizes))

\* C16: after every append of a run of chunks at one positive sample rate,
\* with nothing cleared, trimmed or deleted, the buffer holds the chunks in
\* the order they came, its byte count is the sum of their lengths, and the
\* duration is that sum / 2 / rate.
C16_BytesAndDurationAddUp ==
    (probe.fn = "append" /\ Len(probe.chunks) > 0) =>
        LET total == SumOf(probe.chunks)
            d == probe.duration[1]
        IN  /\ Len(audio_buffers["u1"].bytes) = total
            /\ audio_buffers["u1"].bytes = ChunksOf(probe.chunks)
            /\ audio_buffers["u1"].sample_rate = probe.sample_rate
            /\ d.den > 0
            /\ d.num * 2 * probe.sample_rate = total * d.den

\* 120, 1 and 20 bytes at rate 2: 141 bytes, 141 / 4 seconds
C16_Witness ==
    /\ probe.fn = "append" /\ probe.sample_rate = 2
    /\ probe.chunks = <<120, 1, 20>>
    /\ Len(audio_buffers["u1"].bytes) = 141
    /\ probe.duration = Some([num |-> 141, den |-> 4])

\* C17: the trim to the last 30 seconds keeps exactly the last
\* min(len, 30 * rate * 2) bytes of the buffer, in their order; it leaves a
\* buffer of at most 30 seconds as it is; and a second trim changes nothing.
C17_TrimKeepsSuffix ==
    (probe.fn = "trim" /\ probe.times > 0) =>
        LET b == probe.bytes
            k == 30 * probe.sample_rate * 2
            kept == audio_buffers["u1"].bytes
        IN  /\ Len(kept) = Min(Len(b), k)
            /\ \A i \in 1..Len(kept) : kept[i] = b[Len(b) - Len(kept) + i]
            /\ Len(b) <= k => kept = b
            /\ kept = TrimmedBytes(kept, probe.sample_rate)

\* 130 bytes at rate 1 trimmed twice: bytes 71..130 are left
C17_Witness ==
    /\ probe.fn = "trim" /\ probe.times = 2 /\ probe.sample_rate = 1
    /\ Len(probe.bytes) = 130
    /\ Len(audio_buffers["u1"].bytes) = 60
    /\ audio_buffers["u1"].bytes[1] = 71 /\ audio_buffers["u1"].bytes[60] = 130

\* the chunk came at the rate the session already had
SameRate(o) == o.pre = None \/ o.pre[1].sample_rate = o.sample_rate

\* C18: in a run of chunk requests of one session at one positive sample
\* rate in which no evaluation is confident, a request that takes the
\* buffer over 60 seconds ends with exactly the last 30 seconds of it, and
\* any other request ends with the buffer it found followed by its chunk;
\* so the buffer is never left with more than 60 seconds.
C18_TrimmedOnCrossingSixty ==
    (/\ Returned("audio") /\ last[1].sample_rate > 0 /\ SameRate(last[1])
     /\ ~last[1].cleared) =>
        /\ audio_buffers[last[1].uid].bytes =
              IF PostDurationMoreThan(last[1], 60)
              THEN Suffix(PostBytes(last[1]), 30 * last[1].sample_rate * 2)
              ELSE PostBytes(last[1])
        /\ Len(audio_buffers[last[1].uid].bytes) <= 60 * last[1].sample_rate * 2

\* C19: after every chunk request the stored sample rate is the rate that
\* request declared, whatever the session held before; the gate compares
\* the duration of all buffered bytes at that rate with MIN_AUDIO_LENGTH;
\* and GET /stats reports the duration of all buffered bytes at the stored
\* rate.
C19_LatestRateRules ==
    /\ Returned("audio") =>
          LET o == last[1]
          IN  /\ audio_buffers[o.uid].sample_rate = o.sample_rate
              /\ o.sample_rate > 0 =>
                    ((o.ready = "yes") <=>
                        Len(PostBytes(o)) >= MIN_AUDIO_LENGTH * o.sample_rate * 2)
    /\ InChunkHandler =>
          LET r == running[1]
          IN  /\ audio_buffers[r.q.uid].sample_rate = r.q.sample_rate
              /\ Len(audio_buffers[r.q.uid].bytes) >=
                     MIN_AUDIO_LENGTH * r.q.sample_rate * 2
    /\ (Returned("stats") /\ last[1].code = 200) =>
          last[1].body.buffer_duration_seconds =
              [num |-> Len(audio_buffers[last[1].uid].bytes),
               den |-> 2 * audio_buffers[last[1].uid].sample_rate]

\* 1 byte came at rate 1, then 20 bytes at rate 2: the session is at rate 2
\* and its 21 bytes are 5.25 s, below the floor of 10 s (at rate 1 they
\* would be 10.5 s)
C19_Witness ==
    /\ Returned("audio") /\ last[1].pre /= None
    /\ last[1].pre[1].sample_rate = 1 /\ last[1].sample_rate = 2
    /\ Len(PostBytes(last[1])) = 21 /\ last[1].ready = "no"
    /\ MIN_AUDIO_LENGTH = 10
    /\ audio_buffers[last[1].uid].sample_rate = 2

\* C20: a session begins with the first chunk request of a uid that has
\* none, with an empty LastRecognition, and ends with a DELETE /buffer of
\* that uid that answers 200, and in no other way: every chunk request
\* leaves a session for its uid, and no evaluation, clear, trim or stats
\* request removes one.
C20_SessionLifetime ==
    [][ /\ \A uid \in Uids :
             /\ (uid \notin DOMAIN audio_buffers /\ uid \in DOMAIN audio_buffers') =>
                   /\ audio_buffers'[uid].last_recognition = None
                   /\ \/ /\ last' /= None /\ last'[1].kind = "audio"
                         /\ last'[1].uid = uid /\ last'[1].pre = None
                      \/ /\ running' /= None /\ running'[1].stage = "recognize"
                         /\ running'[1].q.uid = uid /\ running'[1].pre = None
             /\ (uid \in DOMAIN audio_buffers /\ uid \notin DOMAIN audio_buffers') =>
                   /\ last' /= None /\ last'[1].kind = "delete"
                   /\ last'[1].uid = uid /\ last'[1].code = 200
        /\ (last' /= None /\ last'[1].kind = "audio") =>
             last'[1].uid \in DOMAIN audio_buffers'
        /\ InChunkHandler' => running'[1].q.uid \in DOMAIN audio_buffers'
      ]_vars

\* a session that lived through a recognized song and its clear is removed
\* by DELETE
C20_Witness ==
    /\ Returned("delete") /\ last[1].code = 200
    /\ last[1].pre /= None /\ last[1].pre[1].last_recognition /= None
    /\ last[1].pre[1].bytes = <<>>
    /\ last[1].uid \notin DOMAIN audio_buffers

\* C21: the message names the title and the artist and ends with no
\* qualifier when the confidence is more than 0.8, with " (likely)" when it
\* is more than 0.5 and at most 0.8, and with " (maybe)" for every other
\* confidence; every confidence falls in exactly one of the three tiers.
C21_MessageTiers ==
    (probe.fn = "format_notification_message" /\ probe.message /= None) =>
        LET c == probe.song_info.confidence
            m == probe.message[1]
        IN  /\ m.title = probe.song_info.title /\ m.artist = probe.song_info.artist
            /\ m.certainty \in {"", " (likely)", " (maybe)"}
            /\ (m.certainty = "") <=> (c > 80)
            /\ (m.certainty = " (likely)") <=> (50 < c /\ c <= 80)
            /\ (m.certainty = " (maybe)") <=> (c <= 50)

\* a confidence of exactly 0.8 is in the middle tier
C21_Witness ==
    /\ probe.fn = "format_notification_message"
    /\ probe.song_info.confidence = 80
    /\ probe.message /= None /\ probe.message[1].certainty = " (likely)"

\* an evaluation that returned a candidate; o.song_info[1].score is its
\* winning tally
HasCandidate(o) == o.evaluated /\ o.song_info /= None

\* the request recorded nothing, notified nobody and kept its buffer
NoConfidentEffect(o) ==
    /\ o.notify = "none" /\ o.message = None /\ ~o.cleared
    /\ audio_buffers[o.uid].last_recognition = PreRecognition(o)
    /\ Len(audio_buffers[o.uid].bytes) > 0

\* C22 as claimed: an evaluation whose winning tally is at most 100
\* (confidence 0.7, 0.4 or 0.1) records no LastRecognition, triggers no
\* notification and does not clear the buffer.
C22_TallyUpTo100NotConfident ==
    (Returned("audio") /\ HasCandidate(last[1]) /\ last[1].song_info[1].score <= 100) =>
        NoConfidentEffect(last[1])

\* C22 amended: an evaluation whose winning tally is at most 50 (confidence
\* 0.4 or 0.1) records no LastRecognition, triggers no notification and
\* does not clear the buffer; a tally above 50 (confidence 0.7, 0.9 or 1.0)
\* is confident: it notifies, records and clears.
C22_TallyUpTo50NotConfident ==
    (Returned("audio") /\ HasCandidate(last[1])) =>
        LET o == last[1]
            score == o.song_info[1].score
        IN  /\ (score > 50) <=> (o.song_info[1].confidence > 50)
            /\ score <= 50 => NoConfidentEffect(o)
            /\ score > 50 =>
                  /\ o.notify /= "none" /\ o.cleared
                  /\ audio_buffers[o.uid].last_recognition = o.song_info
                  /\ audio_buffers[o.uid].bytes = <<>>

\* a tally of 60 (confidence 0.7) was notified with "(likely)", recorded
\* and cleared
C22_Witness ==
    /\ Returned("audio") /\ HasCandidate(last[1])
    /\ last[1].song_info[1].score = 60 /\ last[1].song_info[1].confidence = 70
    /\ last[1].message /= None /\ last[1].message[1].certainty = " (likely)"
    /\ audio_buffers[last[1].uid].last_recognition = last[1].song_info
    /\ audio_buffers[last[1].uid].bytes = <<>>

\* the handler is inside the call of the notification endpoint
Notifying == running /= None /\ running[1].stage = "notify"

\* C23 as claimed: on a confident result LastRecognition is recorded first,
\* then the notification is sent, then the buffer is cleared: while the
\* notification call is in progress LastRecognition is already the new
\* result and the buffer is not yet cleared.
C23_RecordedBeforeNotified ==
    Notifying =>
        /\ audio_buffers[running[1].q.uid].last_recognition = running[1].song_info
        /\ Len(audio_buffers[running[1].q.uid].bytes) > 0

\* C23 amended: on a confident result the notification is sent first, then
\* LastRecognition is recorded, then the buffer is cleared: while the
\* notification call is in progress LastRecognition is still what it was
\* before the request and the buffer still holds everything; when the
\* request returns, the result is recorded and the buffer is empty.
C23_NotifiedBeforeRecorded ==
    /\ Notifying =>
          LET r == running[1]
              o == Base(r.q, r.pre)
          IN  /\ IsConfident(r.song_info)
              /\ audio_buffers[r.q.uid].last_recognition = PreRecognition(o)
              /\ audio_buffers[r.q.uid].bytes = PostBytes(o)
    /\ (Returned("audio") /\ last[1].notify /= "none") =>
          /\ audio_buffers[last[1].uid].last_recognition = last[1].song_info
          /\ audio_buffers[last[1].uid].bytes = <<>>

\* the notification of a second song is in progress while LastRecognition
\* still names the first
C23_Witness ==
    /\ Notifying
    /\ audio_buffers[running[1].q.uid].last_recognition /= None
    /\ audio_buffers[running[1].q.uid].last_recognition /= running[1].song_info
    /\ Len(audio_buffers[running[1].q.uid].bytes) > 0

\* C24: the evaluation does not hold the session: while recognize_song of
\* a chunk request is in progress, a new chunk request of the same session
\* can be served (its chunk appended) before the evaluation returns.
C24_SessionFreeDuringEvaluation ==
    (/\ Recognizing
     /\ waiting /= None /\ waiting[1].kind = "audio"
     /\ waiting[1].uid = running[1].q.uid) => ENABLED waiting_served

\* the evaluation step of the request failed: create_wav_file raised, the
\* extractor raised, or the store did not answer
EvaluationFailed(o) ==
    \/ o.wav \in {"open_fails", "write_fails"}
    \/ o.evaluated /\ (o.extracted[1].raises \/ ~o.extracted[1].db_ok)

\* C25: a chunk request whose evaluation step failed is handled as one
\* without a confident result: no notification, LastRecognition unchanged,
\* the buffer trimmed to its last 30 seconds when it holds more than 60
\* seconds and else left as it was after the append.
C25_FailureAsNoConfidentResult ==
    (Returned("audio") /\ EvaluationFailed(last[1])) =>
        LET o == last[1]
        IN  /\ o.notify = "none" /\ o.message = None
            /\ audio_buffers[o.uid].last_recognition = PreRecognition(o)
            /\ audio_buffers[o.uid].bytes =
                  IF PostDurationMoreThan(o, 60)
                  THEN Suffix(PostBytes(o), 30 * o.sample_rate * 2)
                  ELSE PostBytes(o)

\* the hashes of a fingerprint list, in order
HashesOf(fingerprints) == [i \in 1..Len(fingerprints) |-> fingerprints[i][1]]

\* C26: the per-candidate counts of the matches that get_matches_supabase
\* returns are those of one query with all the hashes of the list: they do
\* not depend on the cut of the list into batches, also when a hash occurs
\* in the list more than once.
C26_BatchingKeepsCounts ==
    (probe.fn = "get_matches_supabase" /\ probe.matches /= None) =>
        Counter(probe.matches[1]) = Counter(SelectIn(HashesOf(probe.fingerprints)))

\* the number of times song s occurs in the match list
RECURSIVE Tally(_, _)
Tally(matches, s) ==
    IF matches = <<>> THEN 0
    ELSE (IF Head(matches).song_id = s THEN Head(matches).n ELSE 0) + Tally(Tail(matches), s)

\* the first place of the match list that names song s
FirstSeen(matches, s) ==
    CHOOSE i \in 1..Len(matches) :
        /\ matches[i].song_id = s
        /\ \A j \in 1..(i - 1) : matches[j].song_id /= s

\* C27: the best match is a song of the match list with the highest tally,
\* its score is that tally, and among several songs with the highest tally
\* it is the one that occurs first in the match list.
C27_HighestTallyFirstSeen ==
    (probe.fn = "most_common" /\ probe.best_match /= None) =>
        LET matches == probe.matches
            songs == { matches[i].song_id : i \in 1..Len(matches) }
            song_id == probe.best_match[1].song_id
            score == probe.best_match[1].n
        IN  /\ song_id \in songs
            /\ score = Tally(matches, song_id)
            /\ \A s \in songs :
                  /\ Tally(matches, s) <= score
                  /\ (Tally(matches, s) = score /\ s /= song_id) =>
                        FirstSeen(matches, song_id) < FirstSeen(matches, s)

\* sB, sA, sA, sB: both have a tally of 2 and sB, seen first, wins
C27_Witness ==
    /\ probe.fn = "most_common"
    /\ probe.matches = << [song_id |-> "sB", n |-> 1], [song_id |-> "sA", n |-> 2],
                          [song_id |-> "sB", n |-> 1] >>
    /\ probe.best_match = Some([song_id |-> "sB", n |-> 2])

\* the buffer the request found was not empty and already satisfied the
\* floor at the rate of the request
FloorAlreadyReached(o) ==
    /\ o.pre /= None /\ o.sample_rate > 0 /\ SameRate(o)
    /\ Len(PreBytes(o)) > 0
    /\ Len(PreBytes(o)) >= MIN_AUDIO_LENGTH * o.sample_rate * 2

\* C28: evaluations are not suppressed: a chunk request that finds a
\* buffer that is not cleared and already satisfies the floor makes a new
\* evaluation, and every evaluation with a confident result invokes the
\* notification dispatcher exactly once, also when the result equals the
\* LastRecognition of the session.
C28_NoEvaluationSuppressed ==
    [][ (last' /= None /\ last'[1].kind = "audio") =>
          LET o == last'[1]
          IN  /\ FloorAlreadyReached(o) => o.evaluated
              /\ (o.evaluated /\ IsConfident(o.song_info)) =>
                    /\ o.notify /= "none"
                    /\ calls'.notify = calls.notify + 1
              /\ ~(o.evaluated /\ IsConfident(o.song_info)) =>
                    calls'.notify = calls.notify
      ]_vars

\* a result of recognize_song with a confidence of more than 0.5
ConfidentResult(song_info) == song_info /= None /\ song_info[1].confidence > 50

\* C29: LastRecognition of a session is absent or the result of the most
\* recent confident evaluation of the session: it starts absent, every
\* confident evaluation sets it to its result, and nothing else changes it
\* (no evaluation without a confident result, no failure, no trim, no
\* request below the floor, no stats request).
C29_LastRecognitionIsLatestConfident ==
    [][ /\ \A uid \in DOMAIN audio_buffers' :
             LET now == audio_buffers'[uid].last_recognition
                 before == IF uid \in DOMAIN audio_buffers
                           THEN audio_buffers[uid].last_recognition ELSE None
                 confident == /\ last' /= None /\ last'[1].kind = "audio"
                              /\ last'[1].uid = uid /\ last'[1].evaluated
                              /\ ConfidentResult(last'[1].song_info)
             IN  /\ now = None \/ ConfidentResult(now)
                 /\ confident => now = last'[1].song_info
                 /\ ~confident => now = before
      ]_vars

\* the confident result of a second song replaced the recorded first one
C29_Witness ==
    /\ Returned("audio") /\ last[1].evaluated /\ ConfidentResult(last[1].song_info)
    /\ PreRecognition(last[1]) /= None
    /\ PreRecognition(last[1]) /= last[1].song_info
    /\ audio_buffers[last[1].uid].last_recognition = last[1].song_info

\* C30: after every chunk request at one positive sample rate, with
\* MIN_AUDIO_LENGTH at most 60, the buffer of the session holds at most 60
\* seconds.
C30_BoundedAtRest ==
    (/\ Returned("audio") /\ last[1].sample_rate > 0 /\ SameRate(last[1])
     /\ MIN_AUDIO_LENGTH <= 60) =>
        Len(audio_buffers[last[1].uid].bytes) <= 60 * last[1].sample_rate * 2

\* the request whose handler ran in the step that led to this state has
\* uid u: it returned, or it entered its evaluation
ActedFor(u) ==
    \/ last /= None /\ last[1].uid = u
    \/ last = None /\ running /= None /\ running[1].q.uid = u

\* C31: a chunk, stats or delete request of one uid leaves the sessions of
\* every other uid as they are: their bytes, sample rate and
\* LastRecognition are unchanged and none of them is created or removed.
C31_OtherSessionsUntouched ==
    [][ \A u \in Uids :
          Session(audio_buffers, u)' /= Session(audio_buffers, u) => ActedFor(u)'
      ]_vars

\* a chunk request of one uid cleared its buffer after a recognized song
\* while the session of the other uid holds bytes and a recognition
C31_Witness ==
    /\ Returned("audio") /\ last[1].cleared
    /\ audio_buffers[last[1].uid].bytes = <<>>
    /\ \E u \in DOMAIN audio_buffers :
          /\ u /= last[1].uid
          /\ Len(audio_buffers[u].bytes) > 0
          /\ audio_buffers[u].last_recognition /= None

\* a DELETE of the session whose chunk request is being handled has arrived
DeleteDuringChunk ==
    /\ InChunkHandler /\ waiting /= None
    /\ waiting[1].kind = "delete" /\ waiting[1].uid = running[1].q.uid

\* C32: a DELETE /buffer that overlaps a chunk request of the same uid acts
\* wholly before or wholly after it.  From the append of the chunk request
\* to its clear, trim or record the session is there and is what the append
\* left, also while a DELETE of it is pending, and the DELETE is not served
\* before the chunk request has returned; so the chunk request ends as it
\* would without the DELETE, with its session there, and the DELETE then
\* removes that session and answers 200.
C32_DeleteDoesNotBreakChunk ==
    /\ InChunkHandler =>
          /\ running[1].q.uid \in DOMAIN audio_buffers
          /\ audio_buffers[running[1].q.uid].bytes =
                 PostBytes(Base(running[1].q, running[1].pre))
    /\ DeleteDuringChunk => ~ENABLED waiting_served
    /\ Returned("audio") => last[1].uid \in DOMAIN audio_buffers
    /\ (Returned("audio") /\ last[1].evaluated) => last[1].code = 200
    /\ Returned("delete") =>
          /\ last[1].uid \notin DOMAIN audio_buffers
          /\ last[1].code = IF last[1].pre = None THEN 404 ELSE 200

\* a DELETE of the session is pending while the notification of its
\* recognized song is in progress
C32_Witness ==
    /\ DeleteDuringChunk /\ running[1].stage = "notify"
    /\ running[1].q.uid \in DOMAIN audio_buffers
    /\ Len(audio_buffers[running[1].q.uid].bytes) > 0

\* the evaluation got matches and the store, when it answered the query
\* for the song with the highest tally, held no row of song_info for it
WinnerWithoutInfo(o) ==
    /\ o.evaluated /\ ~o.extracted[1].raises /\ o.extracted[1].db_ok
    /\ Len(o.extracted[1].matches) > 0
    /\ o.extracted[1].rows = 0

\* C33: when the winning candidate has no metadata in the store the
\* evaluation gives no candidate, whatever its tally: no notification,
\* LastRecognition unchanged, and the buffer trimmed to its last 30 seconds
\* when it holds more than 60 seconds and else left as after the append.
C33_NoMetadataNoCandidate ==
    (Returned("audio") /\ WinnerWithoutInfo(last[1])) =>
        LET o == last[1]
        IN  /\ o.song_info = None
            /\ o.notify = "none" /\ o.message = None /\ ~o.cleared
            /\ audio_buffers[o.uid].last_recognition = PreRecognition(o)
            /\ audio_buffers[o.uid].bytes =
                  IF PostDurationMoreThan(o, 60)
                  THEN Suffix(PostBytes(o), 30 * o.sample_rate * 2)
                  ELSE PostBytes(o)
            /\ o.code = 200

\* song sD won with a tally of 150 (confidence 0.9 if it had metadata) in
\* a session that holds an earlier recognition; nothing was notified and
\* the buffer of more than 60 seconds was trimmed
C33_Witness ==
    /\ Returned("audio") /\ WinnerWithoutInfo(last[1])
    /\ last[1].extracted[1].fps[1][1] = 14
    /\ last[1].song_info = None /\ last[1].notify = "none"
    /\ PreRecognition(last[1]) /= None
    /\ audio_buffers[last[1].uid].last_recognition = PreRecognition(last[1])
    /\ last[1].trimmed

\* C34: whenever a chunk request trims its buffer, the bytes it keeps begin
\* on a 16-bit sample boundary of the buffer before the trim: the number of
\* bytes dropped from the front is even.
C34_TrimOnSampleBoundary ==
    (Returned("audio") /\ last[1].trimmed) =>
        (Len(PostBytes(last[1])) - Len(audio_buffers[last[1].uid].bytes)) % 2 = 0

====
